---------------------------- MODULE Spec2Model ----------------------------
(***************************************************************************)
(* SolitaireCLI: the move engine (Game), its Deck and Card, and the        *)
(* binary save-file codec, as a state machine.                             *)
(*                                                                         *)
(* Cards are records [suit, rank, facingUp, valid] exactly as class Card.  *)
(* Vectors are sequences; vector index k of the code is index k+1 here.    *)
(* columns and reserveSlots keep the code's 0-based indices.               *)
(***************************************************************************)
EXTENDS Integers, Sequences, FiniteSets

VARIABLES
    deck,          \* Deck::cards, last element = top
    currentCard,   \* Game::currentCard
    columns,       \* Game::columns[columnsSize]
    pile,          \* Game::pile
    reserveSlots,  \* Game::reserveSlots[reserveSlotSize]
    garbage,       \* what uninitialised memory holds in this run
    last,          \* the last call made on the engine: [op, args, ret]
    placed,        \* per slot, the ranks put into it by the ...ToReserve calls since the last reset
    replaced,      \* per slot, while it holds a card put there by a ...ToReserve call: the occupant overwritten
    used,          \* calls made since the last deal, per kind
    budget,        \* how many calls of each kind a run explores
    file,          \* the save file "<name>.sot": [status, bytes]
    saved,         \* what the last saveFileGame wrote, while the file is as it left it
    ui             \* ConsoleUi and its two threads

game == <<deck, currentCard, columns, pile, reserveSlots>>
disk == <<file, saved>>
vars == <<deck, currentCard, columns, pile, reserveSlots, garbage, last, placed, replaced, used,
          budget, file, saved, ui>>

---------------------------------------------------------------------------
(* Program constants *)

columnsSize == 7
reserveSlotSize == 4

Hearts == 0
Diamonds == 1
Clubs == 2
Spades == 3

Ace == 1
King == 13
Jack == 11

DeckSize == 52

Cols == 0 .. (columnsSize - 1)
Slots == 0 .. (reserveSlotSize - 1)

---------------------------------------------------------------------------
(* Bounds of the exploration *)

MaxMoves == 2        \* successful moves explored after a deal
MaxDraws == 5        \* draws explored after a deal
MaxCount == 2        \* moveCard is called with count in 0 .. MaxCount
StockDraws == 48     \* draws explored when a run only works the stock
MaxReshuffles == 1   \* reshuffles explored when a run only works the stock
Shuffles == 2        \* outcomes explored of shuffling a pile
MaxFileMoves == 1    \* successful moves explored after a deal in a session with file calls
MaxFileDraws == 1    \* draws explored after a deal in a session with file calls
MaxFileCalls == 3    \* saves, loads and changes to the file explored in a run
MaxStockFileCalls == 2 \* the same, in a run that works the stock
MaxStockFileDraws == 26 \* draws explored in a run that saves, loads and works the stock
MaxUiMoves == 1       \* successful moves explored after a deal in a session at the console
MaxUiDraws == 1       \* draws explored after a deal in a session at the console
MaxUiCalls == 2       \* saves and loads explored in a session at the console
MaxThreadDraws == 1   \* draws explored while both threads run
MaxThreadCalls == 2   \* saves and loads explored while both threads run
MaxReserveMoves == 3  \* successful moves explored in a game that works the reserves
MaxReserveDraws == 1  \* draws explored in a game that works the reserves
MaxStockUiCalls == 26 \* autosaves explored in a session that draws the deck to its end
MaxEndgameMoves == 7 \* moves explored from the end of a game
WonFreeColumns == 2   \* columns of a position that hold any run or near run
CutLengths == {5, 9, 12}   \* where a file is cut short, in fields

\* Contents an uninitialised Card can have: zero-filled memory, and the
\* 0xCC fill of a debug build.  Card::Card() sets only `valid`.
Indeterminate ==
    { [suit |-> 0,   rank |-> 0,   facingUp |-> FALSE],
      [suit |-> 204, rank |-> 204, facingUp |-> TRUE] }

---------------------------------------------------------------------------
(* Card *)

Back(s) == s[Len(s)]
PopBack(s) == SubSeq(s, 1, Len(s) - 1)

\* Card::Card(Suit, Rank)
Card(suit, rank) == [suit |-> suit, rank |-> rank, facingUp |-> FALSE, valid |-> TRUE]

\* Card::Card(): only valid is initialised
CardDefault(g) == [suit |-> g.suit, rank |-> g.rank, facingUp |-> g.facingUp, valid |-> FALSE]

flip(card) == [card EXCEPT !.facingUp = ~@]

isRed(card) == card.suit = Hearts \/ card.suit = Diamonds

\* static_cast<Rank>(int): Rank is an unsigned char
ToRank(n) == n % 256

---------------------------------------------------------------------------
(* Deck *)

\* Deck::reset with its inner loop one rank short, so that the ranks wrap
\* around before the King
CanonicalOneRankShort ==
    [k \in 1 .. DeckSize |-> Card((k - 1) \div 13, ((k - 1) % 12) + 1)]

\* The canonical 52 cards in the order Deck::reset pushes them
Canonical ==
    [k \in 1 .. DeckSize |-> Card((k - 1) \div 13, ((k - 1) % 13) + 1)]

\* Two outcomes of shuffling a full deck, as the order of Deck::cards
\* (element 52 is dealt first).
Deal1 ==
 <<
   <<3,12>>, <<3,11>>, <<3,10>>, <<3,9>>, <<3,8>>, <<3,6>>, <<3,4>>, <<3,3>>, <<3,1>>, <<2,13>>, <<2,12>>, <<2,11>>, <<2,10>>,
   <<2,9>>, <<2,8>>, <<2,5>>, <<2,4>>, <<2,3>>, <<2,2>>, <<0,2>>, <<0,3>>, <<0,1>>, <<0,6>>, <<2,6>>, <<3,7>>, <<1,13>>,
   <<1,12>>, <<1,11>>, <<1,10>>, <<1,9>>, <<1,8>>, <<3,13>>, <<1,7>>, <<1,5>>, <<1,4>>, <<1,3>>, <<0,13>>, <<1,6>>, <<0,12>>,
   <<0,11>>, <<0,10>>, <<0,9>>, <<3,5>>, <<2,7>>, <<0,8>>, <<0,7>>, <<2,1>>, <<0,5>>, <<0,4>>, <<1,1>>, <<1,2>>, <<3,2>>
 >>

Deal2 ==
 <<
   <<1,8>>, <<0,10>>, <<1,13>>, <<3,3>>, <<0,4>>, <<0,5>>, <<2,9>>, <<0,7>>, <<1,11>>, <<2,12>>, <<3,9>>, <<2,7>>, <<1,1>>,
   <<0,3>>, <<0,6>>, <<2,2>>, <<2,1>>, <<3,8>>, <<1,3>>, <<3,4>>, <<2,11>>, <<0,2>>, <<2,10>>, <<1,6>>, <<3,10>>, <<0,8>>,
   <<3,13>>, <<3,11>>, <<2,3>>, <<2,5>>, <<3,5>>, <<1,9>>, <<0,13>>, <<1,10>>, <<2,4>>, <<1,12>>, <<3,7>>, <<2,8>>, <<3,6>>,
   <<2,13>>, <<0,9>>, <<1,4>>, <<3,12>>, <<1,2>>, <<1,7>>, <<0,1>>, <<0,12>>, <<3,2>>, <<0,11>>, <<2,6>>, <<3,1>>, <<1,5>>
 >>

Deals == {Deal1, Deal2}

\* position of the pair p in the canonical order
CanonicalIndex(p) == p[1] * 13 + p[2]

\* cards, starting j places further on
Rotate(cards, j) ==
    [k \in 1 .. Len(cards) |-> cards[((k - 1 + j) % Len(cards)) + 1]]

\* Deck::shuffle: std::shuffle leaves some permutation of the cards.  The
\* permutations explored are those of Deals for a full deck, and the first
\* rotations for any other number of cards.
shuffle(cards) ==
    IF cards = <<>> THEN { <<>> }
    ELSE IF Len(cards) = DeckSize
    THEN { [k \in 1 .. DeckSize |-> cards[CanonicalIndex(d[k])]] : d \in Deals }
    ELSE { Rotate(cards, j) : j \in 0 .. (Shuffles - 1) }

\* Deck::reset (and Deck::Deck): the canonical cards, shuffled
Deck_reset == shuffle(Canonical)

---------------------------------------------------------------------------
(* Game *)

RECURSIVE Deal(_, _, _)
\* Game::start: column i takes i+1 cards off the deck, its last card is flipped
Deal(d, cols, i) ==
    IF i = columnsSize THEN <<d, cols>>
    ELSE LET n == i + 1
             taken == [j \in 1 .. n |-> d[Len(d) - j + 1]]
             col == cols[i] \o taken
             flipped == [col EXCEPT ![Len(col)] = flip(@)]
         IN Deal(SubSeq(d, 1, Len(d) - n), [cols EXCEPT ![i] = flipped], i + 1)

\* How a call ended: "true", "false", "void" for a function without a
\* result, "thrown" for an exception
Returned(b) == IF b THEN "true" ELSE "false"

Call(op, args, ret) == [op |-> op, args |-> args, ret |-> ret]

\* A rejected call changes nothing (RejectedCallChangesNothing), so the
\* calls that can follow it are those of the state it was made in: a run is
\* explored up to its first rejected call.
Rejected == last.ret = "false"

\* An exception nobody catches, or abort(), ends the process
Terminated == last.ret \in {"thrown", "aborted"}

\* main has dealt, and the process is there to take a further call
CanCall == last.op # "Game" /\ ~Rejected /\ ~Terminated

NoneUsed == [moves |-> 0, draws |-> 0, reshuffles |-> 0, io |-> 0]

\* Game::start, called once by main right after construction
Start ==
    /\ last.op = "Game"
    /\ LET r == Deal(deck, columns, 0) IN
         /\ deck' = r[1]
         /\ columns' = r[2]
    /\ last' = Call("start", <<>>, "void")
    /\ UNCHANGED <<currentCard, pile, reserveSlots, garbage, placed, replaced, used, budget, disk>>

\* Game::reset without pile.clear()
ResetKeepsPile ==
    /\ CanCall
    /\ \E d \in Deck_reset :
         LET r == Deal(d, [i \in Cols |-> <<>>], 0) IN
           /\ deck' = r[1]
           /\ columns' = r[2]
    /\ currentCard' = CardDefault(garbage)
    /\ reserveSlots' = [i \in Slots |-> CardDefault(garbage)]
    /\ placed' = [i \in Slots |-> <<>>]
    /\ replaced' = [i \in Slots |-> <<>>]
    /\ used' = [NoneUsed EXCEPT !.io = used.io]
    /\ last' = Call("reset", <<>>, "void")
    /\ UNCHANGED <<pile, garbage, budget, disk>>

\* Game::reset
Reset ==
    /\ CanCall
    /\ \E d \in Deck_reset :
         LET r == Deal(d, [i \in Cols |-> <<>>], 0) IN
           /\ deck' = r[1]
           /\ columns' = r[2]
    /\ currentCard' = CardDefault(garbage)
    /\ reserveSlots' = [i \in Slots |-> CardDefault(garbage)]
    /\ pile' = <<>>
    /\ placed' = [i \in Slots |-> <<>>]
    /\ replaced' = [i \in Slots |-> <<>>]
    /\ used' = [NoneUsed EXCEPT !.io = used.io]
    /\ last' = Call("reset", <<>>, "void")
    /\ UNCHANGED <<garbage, budget, disk>>

\* Game::drawCard
DrawCard ==
    /\ CanCall
    /\ IF deck = <<>>
       THEN /\ last' = Call("drawCard", <<>>, "false")
            /\ UNCHANGED <<game, used>>
       ELSE /\ used.draws < budget.draws
            /\ currentCard' = flip(Back(deck))
            /\ deck' = PopBack(deck)
            /\ pile' = Append(pile, flip(Back(deck)))
            /\ used' = [used EXCEPT !.draws = @ + 1]
            /\ last' = Call("drawCard", <<>>, "true")
            /\ UNCHANGED <<columns, reserveSlots>>
    /\ UNCHANGED <<garbage, placed, replaced, budget, disk>>

\* Deck::reShuffle without the flip of the cards
ReShuffleUnflipped ==
    /\ CanCall
    /\ deck = <<>>
    /\ used.reshuffles < budget.reshuffles
    /\ deck' \in shuffle(pile)
    /\ pile' = <<>>
    /\ used' = [used EXCEPT !.reshuffles = @ + 1]
    /\ last' = Call("reShuffle", <<>>, "void")
    /\ UNCHANGED <<currentCard, columns, reserveSlots, garbage, placed, replaced, budget, disk>>

\* Deck::reShuffle, which "przetasuj" calls when the deck is empty
ReShuffle ==
    /\ CanCall
    /\ deck = <<>>
    /\ used.reshuffles < budget.reshuffles
    /\ \E cards \in shuffle(pile) :
         deck' = [k \in 1 .. Len(cards) |-> flip(cards[k])]
    /\ pile' = <<>>
    /\ used' = [used EXCEPT !.reshuffles = @ + 1]
    /\ last' = Call("reShuffle", <<>>, "void")
    /\ UNCHANGED <<currentCard, columns, reserveSlots, garbage, placed, replaced, budget, disk>>

\* Game::moveCard without the test of startCard.isFacingUp()
moveCardRetAnyFace(fromCol, toCol, count) ==
    LET from == columns[fromCol]
        to == columns[toCol]
    IN IF count <= 0 \/ count > Len(from) THEN FALSE
       ELSE LET startCard == from[Len(from) - count + 1] IN
            IF to = <<>>
            THEN startCard.rank = King
            ELSE LET top == Back(to) IN
                 ~(isRed(top) = isRed(startCard) \/ top.rank # startCard.rank + 1)

\* Game::moveCard testing the colour only, not the rank, of the card landed on
moveCardRetAnyRank(fromCol, toCol, count) ==
    LET from == columns[fromCol]
        to == columns[toCol]
    IN IF count <= 0 \/ count > Len(from) THEN FALSE
       ELSE LET startCard == from[Len(from) - count + 1] IN
            IF ~startCard.facingUp THEN FALSE
            ELSE IF to = <<>>
                 THEN startCard.rank = King
                 ELSE isRed(Back(to)) # isRed(startCard)

\* Game::moveCard asking for the rank below startCard's, not the rank above
moveCardRetRankBelow(fromCol, toCol, count) ==
    LET from == columns[fromCol]
        to == columns[toCol]
    IN IF count <= 0 \/ count > Len(from) THEN FALSE
       ELSE LET startCard == from[Len(from) - count + 1] IN
            IF ~startCard.facingUp THEN FALSE
            ELSE IF to = <<>>
                 THEN startCard.rank = King
                 ELSE LET top == Back(to) IN
                      ~(isRed(top) = isRed(startCard) \/ top.rank # startCard.rank - 1)

\* Game::moveCard, its return value
moveCardRet(fromCol, toCol, count) ==
    LET from == columns[fromCol]
        to == columns[toCol]
    IN IF count <= 0 \/ count > Len(from) THEN FALSE
       ELSE LET startCard == from[Len(from) - count + 1] IN
            IF ~startCard.facingUp THEN FALSE
            ELSE IF to = <<>>
                 THEN startCard.rank = King
                 ELSE LET top == Back(to) IN
                      ~(isRed(top) = isRed(startCard) \/ top.rank # startCard.rank + 1)

\* Game::moveCard without the flip of the source column's new last card
moveCardColumnsNoReveal(fromCol, toCol, count) ==
    LET from == columns[fromCol]
        movingCards == SubSeq(from, Len(from) - count + 1, Len(from))
        inserted == [columns EXCEPT ![toCol] = @ \o movingCards]
    IN [inserted EXCEPT ![fromCol] = SubSeq(@, 1, Len(@) - count)]

\* Game::moveCard putting the moved cards on the destination in reverse order
moveCardColumnsReversed(fromCol, toCol, count) ==
    LET from == columns[fromCol]
        movingCards == [j \in 1 .. count |-> from[Len(from) - j + 1]]
        inserted == [columns EXCEPT ![toCol] = @ \o movingCards]
        erased == [inserted EXCEPT ![fromCol] = SubSeq(@, 1, Len(@) - count)]
    IN IF erased[fromCol] # <<>> /\ ~Back(erased[fromCol]).facingUp
       THEN [erased EXCEPT ![fromCol][Len(erased[fromCol])] = flip(@)]
       ELSE erased

\* Game::moveCard turning the destination's former last card face-down
\* under the cards it puts on it
moveCardColumnsCovering(fromCol, toCol, count) ==
    LET from == columns[fromCol]
        movingCards == SubSeq(from, Len(from) - count + 1, Len(from))
        covered == IF columns[toCol] # <<>> /\ Back(columns[toCol]).facingUp
                   THEN [columns EXCEPT ![toCol][Len(columns[toCol])] = flip(@)]
                   ELSE columns
        inserted == [covered EXCEPT ![toCol] = @ \o movingCards]
        erased == [inserted EXCEPT ![fromCol] = SubSeq(@, 1, Len(@) - count)]
    IN IF erased[fromCol] # <<>> /\ ~Back(erased[fromCol]).facingUp
       THEN [erased EXCEPT ![fromCol][Len(erased[fromCol])] = flip(@)]
       ELSE erased

\* Game::moveCard, the columns it leaves on success
moveCardColumns(fromCol, toCol, count) ==
    LET from == columns[fromCol]
        movingCards == SubSeq(from, Len(from) - count + 1, Len(from))
        inserted == [columns EXCEPT ![toCol] = @ \o movingCards]
        erased == [inserted EXCEPT ![fromCol] = SubSeq(@, 1, Len(@) - count)]
    IN IF erased[fromCol] # <<>> /\ ~Back(erased[fromCol]).facingUp
       THEN [erased EXCEPT ![fromCol][Len(erased[fromCol])] = flip(@)]
       ELSE erased

MoveCard ==
    /\ CanCall
    /\ \E fromCol \in Cols, toCol \in Cols, count \in 0 .. MaxCount :
         LET ret == moveCardRet(fromCol, toCol, count) IN
           /\ last' = Call("moveCard", <<fromCol, toCol, count>>, Returned(ret))
           /\ IF ret
              THEN /\ used.moves < budget.moves
                   /\ columns' = moveCardColumns(fromCol, toCol, count)
                   /\ used' = [used EXCEPT !.moves = @ + 1]
              ELSE UNCHANGED <<columns, used>>
    /\ UNCHANGED <<deck, currentCard, pile, reserveSlots, garbage, placed, replaced, budget, disk>>

\* Game::moveFromPileToColumn testing the rank only, not the colour
moveFromPileToColumnRetAnyColour(toCol) ==
    IF pile = <<>> THEN FALSE
    ELSE LET card == Back(pile)
             to == columns[toCol]
         IN IF to = <<>>
            THEN card.rank = King
            ELSE Back(to).rank = card.rank + 1

\* Game::moveFromPileToColumn, its return value
moveFromPileToColumnRet(toCol) ==
    IF pile = <<>> THEN FALSE
    ELSE LET card == Back(pile)
             to == columns[toCol]
         IN IF to = <<>>
            THEN card.rank = King
            ELSE LET top == Back(to) IN
                 ~(isRed(top) = isRed(card) \/ top.rank # card.rank + 1)

\* Game::moveFromPileToColumn popping the pile before it tests the rule
MoveFromPileToColumnPopsFirst ==
    /\ CanCall
    /\ \E toCol \in Cols :
         LET ret == moveFromPileToColumnRet(toCol) IN
           /\ last' = Call("moveFromPileToColumn", <<toCol>>, Returned(ret))
           /\ IF ret
              THEN /\ used.moves < budget.moves
                   /\ columns' = [columns EXCEPT ![toCol] = Append(@, Back(pile))]
                   /\ pile' = PopBack(pile)
                   /\ used' = [used EXCEPT !.moves = @ + 1]
              ELSE /\ pile' = IF pile = <<>> THEN pile ELSE PopBack(pile)
                   /\ UNCHANGED <<columns, used>>
    /\ UNCHANGED <<deck, currentCard, reserveSlots, garbage, placed, replaced, budget, disk>>

MoveFromPileToColumn ==
    /\ CanCall
    /\ \E toCol \in Cols :
         LET ret == moveFromPileToColumnRet(toCol) IN
           /\ last' = Call("moveFromPileToColumn", <<toCol>>, Returned(ret))
           /\ IF ret
              THEN /\ used.moves < budget.moves
                   /\ columns' = [columns EXCEPT ![toCol] = Append(@, Back(pile))]
                   /\ pile' = PopBack(pile)
                   /\ used' = [used EXCEPT !.moves = @ + 1]
              ELSE UNCHANGED <<columns, pile, used>>
    /\ UNCHANGED <<deck, currentCard, reserveSlots, garbage, placed, replaced, budget, disk>>

\* The condition with the suit tested for an empty slot only
reserveAcceptsAnySuitOnOccupied(slot, card) ==
    LET cardValid == reserveSlots[slot].valid IN
      \/ (~cardValid /\ card.rank = Ace /\ card.suit = slot)
      \/ (cardValid /\ card.rank > reserveSlots[slot].rank)

\* The condition with "!=" for ">" in the test against the occupant's rank
reserveAcceptsOtherRank(slot, card) ==
    LET cardValid == reserveSlots[slot].valid IN
      \/ (~cardValid /\ card.rank = Ace /\ card.suit = slot)
      \/ ((cardValid /\ card.rank # reserveSlots[slot].rank) /\ card.suit = slot)

\* The condition of Game::moveFromPileToReserve and
\* Game::moveFromColumnToReserve; && binds tighter than ||
reserveAccepts(slot, card) ==
    LET cardValid == reserveSlots[slot].valid IN
      \/ (~cardValid /\ card.rank = Ace /\ card.suit = slot)
      \/ ((cardValid /\ card.rank > reserveSlots[slot].rank) /\ card.suit = slot)

\* Game::moveFromPileToReserve, its return value
moveFromPileToReserveRet(slot) ==
    IF pile = <<>> THEN FALSE ELSE reserveAccepts(slot, Back(pile))

MoveFromPileToReserve ==
    /\ CanCall
    /\ \E slot \in Slots :
         LET ret == moveFromPileToReserveRet(slot) IN
           /\ last' = Call("moveFromPileToReserve", <<slot>>, Returned(ret))
           /\ IF ret
              THEN /\ used.moves < budget.moves
                   /\ reserveSlots' = [reserveSlots EXCEPT ![slot] = Back(pile)]
                   /\ pile' = PopBack(pile)
                   /\ placed' = [placed EXCEPT ![slot] = Append(@, Back(pile).rank)]
                   /\ replaced' = [replaced EXCEPT ![slot] = <<reserveSlots[slot]>>]
                   /\ used' = [used EXCEPT !.moves = @ + 1]
              ELSE UNCHANGED <<reserveSlots, pile, placed, replaced, used>>
    /\ UNCHANGED <<deck, currentCard, columns, garbage, budget, disk>>

\* Game::moveFromColumnToReserve, its return value
moveFromColumnToReserveRet(fromCol, slot) ==
    LET column == columns[fromCol] IN
      IF column = <<>> THEN FALSE
      ELSE LET card == Back(column) IN
           IF ~card.facingUp THEN FALSE
           ELSE reserveAccepts(slot, card)

\* Game::moveFromColumnToReserve, the column it leaves on success
moveFromColumnToReserveColumn(fromCol) ==
    LET popped == PopBack(columns[fromCol]) IN
      IF popped # <<>> /\ ~Back(popped).facingUp
      THEN [popped EXCEPT ![Len(popped)] = flip(@)]
      ELSE popped

MoveFromColumnToReserve ==
    /\ CanCall
    /\ \E fromCol \in Cols, slot \in Slots :
         LET ret == moveFromColumnToReserveRet(fromCol, slot) IN
           /\ last' = Call("moveFromColumnToReserve", <<fromCol, slot>>, Returned(ret))
           /\ IF ret
              THEN /\ used.moves < budget.moves
                   /\ reserveSlots' = [reserveSlots EXCEPT ![slot] = Back(columns[fromCol])]
                   /\ columns' = [columns EXCEPT ![fromCol] = moveFromColumnToReserveColumn(fromCol)]
                   /\ placed' = [placed EXCEPT ![slot] = Append(@, Back(columns[fromCol]).rank)]
                   /\ replaced' = [replaced EXCEPT ![slot] = <<reserveSlots[slot]>>]
                   /\ used' = [used EXCEPT !.moves = @ + 1]
              ELSE UNCHANGED <<reserveSlots, columns, placed, replaced, used>>
    /\ UNCHANGED <<deck, currentCard, pile, garbage, budget, disk>>

\* Game::moveFromReserveToColumn, its return value; the slot's validity is
\* never looked at
moveFromReserveToColumnRet(slot, toCol) ==
    LET column == columns[toCol]
        card == reserveSlots[slot]
    IN IF column = <<>>
       THEN card.rank = King
       ELSE LET top == Back(column) IN
            ~(isRed(top) = isRed(card) \/ top.rank # card.rank + 1)

\* Game::moveFromReserveToColumn, the occupant it leaves in the slot
moveFromReserveToColumnSlot(slot) ==
    LET card == reserveSlots[slot] IN
      IF card.rank # Ace
      THEN flip(Card(card.suit, ToRank(card.rank - 1)))
      ELSE CardDefault(garbage)

MoveFromReserveToColumn ==
    /\ CanCall
    /\ \E slot \in Slots, toCol \in Cols :
         LET ret == moveFromReserveToColumnRet(slot, toCol) IN
           /\ last' = Call("moveFromReserveToColumn", <<slot, toCol>>, Returned(ret))
           /\ IF ret
              THEN /\ used.moves < budget.moves
                   /\ columns' = [columns EXCEPT ![toCol] = Append(@, reserveSlots[slot])]
                   /\ reserveSlots' = [reserveSlots EXCEPT ![slot] = moveFromReserveToColumnSlot(slot)]
                   /\ replaced' = [replaced EXCEPT ![slot] = <<>>]
                   /\ used' = [used EXCEPT !.moves = @ + 1]
              ELSE UNCHANGED <<reserveSlots, columns, replaced, used>>
    /\ UNCHANGED <<deck, currentCard, pile, garbage, placed, budget, disk>>

\* Game::isGameWon without the test of isFacingUp()
isGameWonAnyFace ==
    LET columnSet(i) ==
          LET column == columns[i] IN
            /\ Len(column) = 13
            /\ \A j \in 0 .. 12 :
                 /\ column[j + 1].rank = 13 - j
                 /\ j > 0 => isRed(column[j + 1]) # isRed(column[j])
    IN Cardinality({i \in 0 .. 6 : columnSet(i)}) = 4

\* Game::isGameWon with the colour test inverted
isGameWonSameColour ==
    LET columnSet(i) ==
          LET column == columns[i] IN
            /\ Len(column) = 13
            /\ \A j \in 0 .. 12 :
                 /\ column[j + 1].rank = 13 - j
                 /\ column[j + 1].facingUp
                 /\ j > 0 => isRed(column[j + 1]) = isRed(column[j])
    IN Cardinality({i \in 0 .. 6 : columnSet(i)}) = 4

\* Game::isGameWon, its return value
isGameWon ==
    LET columnSet(i) ==
          LET column == columns[i] IN
            /\ Len(column) = 13
            /\ \A j \in 0 .. 12 :
                 /\ column[j + 1].rank = 13 - j
                 /\ column[j + 1].facingUp
                 /\ j > 0 => isRed(column[j + 1]) # isRed(column[j])
    IN Cardinality({i \in 0 .. 6 : columnSet(i)}) = 4

\* Game::isGameWon
IsGameWon ==
    /\ last.op # "Game"
    /\ ~Terminated
    /\ last' = Call("isGameWon", <<>>, Returned(isGameWon))
    /\ UNCHANGED <<game, garbage, placed, replaced, used, budget, disk>>

---------------------------------------------------------------------------
(* Save files.  A file is a sequence of fields: the 9 bytes of the magic,  *)
(* then one field per writeInt / writeBool.  A file cut short is cut       *)
(* between two fields.                                                     *)

\* "Solitaire"
magicNumber == <<83, 111, 108, 105, 116, 97, 105, 114, 101>>

\* Card::writeCard
writeCard(card) ==
    <<card.suit, card.rank,
      IF card.facingUp THEN 1 ELSE 0,
      IF card.valid THEN 1 ELSE 0>>

\* the loops "for (Card& card : cards) card.writeCard(writer)"
writeCards(cards) ==
    [k \in 1 .. 4 * Len(cards) |-> writeCard(cards[((k - 1) \div 4) + 1])[((k - 1) % 4) + 1]]

RECURSIVE writeColumns(_)
\* the columns of saveFileGame, each as its size and its cards, from column i on
writeColumns(i) ==
    IF i = columnsSize THEN <<>>
    ELSE <<Len(columns[i])>> \o writeCards(columns[i]) \o writeColumns(i + 1)

\* What Game::saveFileGame writes
saveFileGameBytes ==
    magicNumber
        \o <<Len(deck)>> \o writeCards(deck)
        \o writeColumns(0)
        \o <<Len(pile)>> \o writeCards(pile)
        \o writeCards([k \in 1 .. reserveSlotSize |-> reserveSlots[k - 1]])

\* The four collections a save file holds
Tableau == <<deck, columns, pile, reserveSlots>>

\* Game::saveFileGame.  The function ends without a return statement, so what
\* the caller gets after a completed save is indeterminate.
SaveFileGame ==
    /\ CanCall
    /\ used.io < budget.io
    /\ used' = [used EXCEPT !.io = @ + 1]
    /\ IF file.status = "locked"
       THEN /\ last' = Call("saveFileGame", <<>>, "false")
            /\ UNCHANGED disk
       ELSE /\ file' = [status |-> "present", bytes |-> saveFileGameBytes]
            /\ saved' = [intact |-> TRUE, state |-> Tableau]
            /\ \E ret \in BOOLEAN : last' = Call("saveFileGame", <<>>, Returned(ret))
    /\ UNCHANGED <<game, garbage, placed, replaced, budget>>

\* BufferedFileReader::readInt at field pos: -1 once the file has ended
readInt(bytes, pos) == IF pos <= Len(bytes) THEN bytes[pos] ELSE -1

\* BufferedFileReader::readBool at field pos
readBool(bytes, pos) ==
    IF pos <= Len(bytes) THEN (IF bytes[pos] # 0 THEN 1 ELSE 0) ELSE -1

\* Card::readCard from field pos on
readCard(bytes, pos) ==
    [suit |-> ToRank(readInt(bytes, pos)),
     rank |-> ToRank(readInt(bytes, pos + 1)),
     facingUp |-> readBool(bytes, pos + 2) # 0,
     valid |-> readBool(bytes, pos + 3) # 0]

\* size cards read one after the other from field pos on
readCards(bytes, pos, size) ==
    [k \in 1 .. size |-> readCard(bytes, pos + 4 * (k - 1))]

RECURSIVE readColumns(_, _, _, _)
\* The column loop of readFileGame from column i on.  std::vector<Card>
\* cards(size) throws for a negative size, leaving the columns before i
\* assigned.
readColumns(bytes, pos, i, cols) ==
    IF i = columnsSize THEN [columns |-> cols, pos |-> pos, thrown |-> FALSE]
    ELSE LET size == readInt(bytes, pos) IN
         IF size < 0 THEN [columns |-> cols, pos |-> pos, thrown |-> TRUE]
         ELSE readColumns(bytes, pos + 1 + 4 * size, i + 1,
                          [cols EXCEPT ![i] = readCards(bytes, pos + 1, size)])

\* What char verify[9] holds before reader.read fills it: the fill of
\* fresh memory, or what an earlier frame left there
verifyBefore == {[k \in 1 .. 9 |-> garbage.rank], magicNumber}

\* Game::readFileGame past the magic check, on a file holding bytes
readFileGameBody(bytes) ==
    LET deckSize == readInt(bytes, 10) IN
    IF deckSize < 0
    THEN /\ last' = Call("readFileGame", <<>>, "thrown")
         /\ UNCHANGED <<deck, columns, pile, reserveSlots>>
    ELSE LET deckCards == [k \in 1 .. deckSize |-> CardDefault(garbage)]
                              \o readCards(bytes, 11, deckSize)
             cols == readColumns(bytes, 11 + 4 * deckSize, 0, columns)
             pileSize == readInt(bytes, cols.pos)
         IN /\ deck' = deckCards
            /\ columns' = cols.columns
            /\ IF cols.thrown \/ pileSize < 0
               THEN /\ last' = Call("readFileGame", <<>>, "thrown")
                    /\ UNCHANGED <<pile, reserveSlots>>
               ELSE /\ pile' = readCards(bytes, cols.pos + 1, pileSize)
                    /\ reserveSlots' = [i \in Slots |->
                           readCard(bytes, cols.pos + 1 + 4 * pileSize + 4 * i)]
                    /\ last' = Call("readFileGame", <<>>, "true")

\* Game::readFileGame.  The reader creates a file that does not exist and
\* then opens it.
ReadFileGame ==
    /\ CanCall
    /\ used.io < budget.io
    /\ used' = [used EXCEPT !.io = @ + 1]
    /\ IF file.status = "locked"
       THEN /\ last' = Call("readFileGame", <<>>, "false")
            /\ UNCHANGED <<deck, columns, pile, reserveSlots, disk>>
       ELSE /\ file' = [status |-> "present", bytes |-> file.bytes]
            /\ saved' = saved
            /\ \E before \in verifyBefore :
                 LET verify == [k \in 1 .. 9 |->
                                  IF k <= Len(file.bytes) THEN file.bytes[k] ELSE before[k]]
                 IN IF verify # magicNumber
                    THEN /\ last' = Call("readFileGame", <<>>, "false")
                         /\ UNCHANGED <<deck, columns, pile, reserveSlots>>
                    ELSE readFileGameBody(file.bytes)
    /\ replaced' = IF reserveSlots' = reserveSlots THEN replaced ELSE [i \in Slots |-> <<>>]
    /\ UNCHANGED <<currentCard, garbage, placed, budget>>

\* The file is cut short after its first n fields by something else
FileCutShort ==
    /\ CanCall
    /\ used.io < budget.io
    /\ file.status = "present"
    /\ \E n \in CutLengths :
         /\ n < Len(file.bytes)
         /\ file' = [file EXCEPT !.bytes = SubSeq(file.bytes, 1, n)]
    /\ saved' = [saved EXCEPT !.intact = FALSE]
    /\ used' = [used EXCEPT !.io = @ + 1]
    /\ last' = Call("cut", <<>>, "void")
    /\ UNCHANGED <<game, garbage, placed, replaced, budget>>

\* The first byte of the file is overwritten by something else
FileOverwritten ==
    /\ CanCall
    /\ used.io < budget.io
    /\ file.status = "present"
    /\ Len(file.bytes) >= 9
    /\ file.bytes[1] = magicNumber[1]
    /\ file' = [file EXCEPT !.bytes[1] = 0]
    /\ saved' = [saved EXCEPT !.intact = FALSE]
    /\ used' = [used EXCEPT !.io = @ + 1]
    /\ last' = Call("overwrite", <<>>, "void")
    /\ UNCHANGED <<game, garbage, placed, replaced, budget>>

\* The file can no longer be opened (permissions, a directory of that name)
FileLocked ==
    /\ CanCall
    /\ used.io < budget.io
    /\ file.status # "locked"
    /\ file' = [file EXCEPT !.status = "locked"]
    /\ saved' = [saved EXCEPT !.intact = FALSE]
    /\ used' = [used EXCEPT !.io = @ + 1]
    /\ last' = Call("lock", <<>>, "void")
    /\ UNCHANGED <<game, garbage, placed, replaced, budget>>

---------------------------------------------------------------------------
(* The console front end *)

\* ConsoleUi::ConsoleUi and the members' initialisers: no command handled
\* yet, the main thread about to show the menu, no watcher thread
ConsoleUi ==
    [command |-> [name |-> "", args |-> <<>>], reply |-> "", called |-> <<>>,
     main |-> "start", resume |-> "create", watcher |-> "none", lock |-> "free",
     running |-> TRUE, inMainMenu |-> TRUE,
     resized |-> TRUE, raced |-> FALSE, actor |-> "main"]

\* A command line is the word Split puts first and the words after it; a
\* word after it is the sequence of its characters.
DigitValue(ch) ==
    CASE ch = "0" -> 0 [] ch = "1" -> 1 [] ch = "2" -> 2 [] ch = "3" -> 3
      [] ch = "4" -> 4 [] ch = "5" -> 5 [] ch = "6" -> 6 [] ch = "7" -> 7
      [] ch = "8" -> 8 [] ch = "9" -> 9

IsDigit(ch) == ch \in {"0", "1", "2", "3", "4", "5", "6", "7", "8", "9"}

RECURSIVE LeadingDigits(_, _)
\* the value of the digits a word starts with, acc being the value so far
LeadingDigits(word, acc) ==
    IF word = <<>> \/ ~IsDigit(Head(word)) THEN acc
    ELSE LeadingDigits(Tail(word), 10 * acc + DigitValue(Head(word)))

\* std::stoi: an optional sign, then digits; what follows the digits is
\* ignored; without a digit it throws
stoi(word) ==
    LET signed == word # <<>> /\ Head(word) \in {"-", "+"}
        digits == IF signed THEN Tail(word) ELSE word
    IN IF digits = <<>> \/ ~IsDigit(Head(digits))
       THEN [thrown |-> TRUE, value |-> 0]
       ELSE [thrown |-> FALSE,
             value |-> IF signed /\ Head(word) = "-"
                       THEN 0 - LeadingDigits(digits, 0)
                       ELSE LeadingDigits(digits, 0)]

\* BufferedIO::isValidFilename
isValidFilename(filename) ==
    /\ filename # <<>>
    /\ \A k \in 1 .. Len(filename) :
         filename[k] \notin {"\\", "/", ":", "*", "?", "\"", "<", ">", "|"}
    /\ \E k \in 1 .. Len(filename) : filename[k] \notin {" ", "."}
    /\ Len(filename) <= 255

\* What handleCommand leaves behind: the command, the message it returns,
\* the engine calls it made, and where the main thread goes on
Handled(command, reply, called, at) ==
    ui' = [ui EXCEPT !.command = command, !.reply = reply, !.called = called,
                     !.main = at, !.actor = "main",
                     !.raced = @ \/ (ui.watcher = "render" /\ game' # game)]

\* handleCommand returning a message without a call on the engine
Answer(command, reply, at) ==
    /\ UNCHANGED <<game, garbage, last, placed, replaced, used, budget, disk>>
    /\ Handled(command, reply, <<>>, at)

\* handleCommand calling the engine operation with these arguments and
\* choosing the message by its result
Calling(command, operation, args, done, refused, at) ==
    /\ operation
    /\ last'.args = args
    /\ Handled(command, IF last'.ret = "true" THEN done ELSE refused,
               <<[op |-> last'.op, args |-> last'.args]>>, at)

\* An engine operation called with an index outside its array.  A debug
\* build aborts in ASSERT; a release build reads what lies next to the
\* array, which here makes the tests fail, or faults.
OutOfRange(command, op, args, refused, at) ==
    /\ CanCall
    /\ UNCHANGED <<game, garbage, placed, replaced, used, budget, disk>>
    /\ \E ret \in {"false", "aborted"} :
         /\ last' = Call(op, args, ret)
         /\ Handled(command, IF ret = "false" THEN refused ELSE "",
                    <<[op |-> op, args |-> args]>>, at)

invalidColumn == "Niepoprawna kolumna"
\* the words every case's invalidArguments begins with; each case adds the form it expects
invalidArguments == "Niepoprawne argumenty"
moved == "Pomyslnie przeniesiono karte"
notMoved == "Nie mozna przeniesc karty"

\* ConsoleUi::handleCommand, case "d" / "dobierz"
handleDobierz(c, at) ==
    Calling(c, DrawCard, <<>>, "Dobrano karte", "Nie mozna dobrac karty", at)

\* ConsoleUi::handleCommand, case "p" / "przenies"
handlePrzenies(c, at) ==
    IF Len(c.args) # 3 THEN Answer(c, invalidArguments, at)
    ELSE LET from == stoi(c.args[1])
             to == stoi(c.args[2])
             count == stoi(c.args[3])
         IN IF from.thrown \/ to.thrown \/ count.thrown
            THEN Answer(c, invalidArguments, at)
            ELSE IF from.value > 7 \/ to.value > 7 \/ from.value < 1 \/ to.value < 1
            THEN Answer(c, invalidColumn, at)
            ELSE Calling(c, MoveCard, <<from.value - 1, to.value - 1, count.value>>,
                         IF count.value = 1 THEN moved ELSE "Pomyslnie przeniesiono karty",
                         IF count.value = 1 THEN notMoved ELSE "Nie mozna przeniesc kart", at)

\* ConsoleUi::handleCommand, case "pk" / "z_puli_do_kolumny"
handlePk(c, at) ==
    IF Len(c.args) # 1 THEN Answer(c, invalidArguments, at)
    ELSE LET to == stoi(c.args[1]) IN
         IF to.thrown THEN Answer(c, invalidArguments, at)
         ELSE IF to.value > 7 \/ to.value < 1 THEN Answer(c, invalidColumn, at)
         ELSE Calling(c, MoveFromPileToColumn, <<to.value - 1>>, moved, notMoved, at)

\* ConsoleUi::handleCommand, case "pr" / "z_puli_do_rezerwy"
handlePr(c, at) ==
    IF Len(c.args) # 1 THEN Answer(c, invalidArguments, at)
    ELSE LET to == stoi(c.args[1]) IN
         IF to.thrown THEN Answer(c, invalidArguments, at)
         ELSE IF to.value > 4 \/ to.value < 1 THEN Answer(c, "niepoprawny numer kolumny ", at)
         ELSE Calling(c, MoveFromPileToReserve, <<to.value - 1>>, moved, notMoved, at)

\* ConsoleUi::handleCommand, case "kr" / "z_kolumny_do_rezerwy": the second
\* test repeats "to < 1" where the other cases test "from < 1"
handleKr(c, at) ==
    IF Len(c.args) # 2 THEN Answer(c, invalidArguments, at)
    ELSE LET from == stoi(c.args[1])
             to == stoi(c.args[2])
         IN IF from.thrown \/ to.thrown THEN Answer(c, invalidArguments, at)
            ELSE IF to.value > 4 \/ to.value < 1 THEN Answer(c, invalidColumn, at)
            ELSE IF from.value > 7 \/ to.value < 1 THEN Answer(c, invalidColumn, at)
            ELSE IF from.value - 1 \in Cols
            THEN Calling(c, MoveFromColumnToReserve, <<from.value - 1, to.value - 1>>,
                         moved, notMoved, at)
            ELSE OutOfRange(c, "moveFromColumnToReserve", <<from.value - 1, to.value - 1>>,
                            notMoved, at)

\* ConsoleUi::handleCommand, case "rk" / "z_rezerwy_do_kolumny"
handleRk(c, at) ==
    IF Len(c.args) # 2 THEN Answer(c, invalidArguments, at)
    ELSE LET from == stoi(c.args[1])
             to == stoi(c.args[2])
         IN IF from.thrown \/ to.thrown THEN Answer(c, invalidArguments, at)
            ELSE IF from.value > 4 \/ from.value < 1 THEN Answer(c, "Niepoprawna rezerwa", at)
            ELSE IF to.value > 7 \/ to.value < 1 THEN Answer(c, invalidColumn, at)
            ELSE Calling(c, MoveFromReserveToColumn, <<from.value - 1, to.value - 1>>,
                         moved, notMoved, at)

\* ConsoleUi::handleCommand, case "przetasuj", without the test of the
\* deck: reShuffle replaces the deck by the pile
handlePrzetasujUntested(c, at) ==
    /\ CanCall
    /\ \E cards \in shuffle(pile) :
         deck' = [k \in 1 .. Len(cards) |-> flip(cards[k])]
    /\ pile' = <<>>
    /\ last' = Call("reShuffle", <<>>, "void")
    /\ UNCHANGED <<currentCard, columns, reserveSlots, garbage, placed, replaced, used, budget, disk>>
    /\ Handled(c, "Przetasowano", <<[op |-> "reShuffle", args |-> <<>>]>>, at)

\* ConsoleUi::handleCommand, case "przetasuj"
handlePrzetasuj(c, at) ==
    IF deck # <<>> THEN Answer(c, "Nie mozna przetasowac", at)
    ELSE /\ ReShuffle
         /\ Handled(c, "Przetasowano", <<[op |-> "reShuffle", args |-> <<>>]>>, at)

\* ConsoleUi::handleCommand, case "reset"
handleReset(c, at) ==
    /\ Reset
    /\ Handled(c, "Zresetowano gre", <<[op |-> "reset", args |-> <<>>]>>, at)

\* ConsoleUi::handleCommand, case "wyjdz"
handleWyjdz(c, at) ==
    /\ ui' = [ui EXCEPT !.command = c, !.reply = "Wychodzenie..", !.called = <<>>,
                        !.main = at, !.actor = "main", !.running = FALSE]
    /\ UNCHANGED <<game, garbage, last, placed, replaced, used, budget, disk>>

\* ConsoleUi::handleCommand, case "menu": drawMenu takes over and the
\* command returns "" when the menu is left
handleMenu(c, at) ==
    /\ ui' = [ui EXCEPT !.command = c, !.reply = "", !.called = <<>>,
                        !.main = "menu", !.resume = at, !.actor = "main",
                        !.inMainMenu = TRUE]
    /\ UNCHANGED <<game, garbage, last, placed, replaced, used, budget, disk>>

\* ConsoleUi::handleCommand, case "zapisz"
handleZapisz(c, at) ==
    IF Len(c.args) # 1 THEN Answer(c, invalidArguments, at)
    ELSE IF ~isValidFilename(c.args[1]) THEN Answer(c, "Niedozwolone znaki w nazwie zapisu", at)
    ELSE Calling(c, SaveFileGame, <<>>, "Zapisano plik", "Wystapil blad w zapisywaniu pliku", at)

\* ConsoleUi::handleCommand: the switch on the first word
handleCommand(c, at) ==
    CASE c.name \in {"d", "dobierz"} -> handleDobierz(c, at)
      [] c.name \in {"p", "przenies"} -> handlePrzenies(c, at)
      [] c.name \in {"pk", "z_puli_do_kolumny"} -> handlePk(c, at)
      [] c.name \in {"pr", "z_puli_do_rezerwy"} -> handlePr(c, at)
      [] c.name \in {"kr", "z_kolumny_do_rezerwy"} -> handleKr(c, at)
      [] c.name \in {"rk", "z_rezerwy_do_kolumny"} -> handleRk(c, at)
      [] c.name = "przetasuj" -> handlePrzetasuj(c, at)
      [] c.name = "reset" -> handleReset(c, at)
      [] c.name = "wyjdz" -> handleWyjdz(c, at)
      [] c.name = "menu" -> handleMenu(c, at)
      [] c.name = "zapisz" -> handleZapisz(c, at)
      [] c.name = "pomoc" -> Answer(c, "Dostepne komendy", at)
      [] OTHER -> Answer(c, "Nie znaleziono komendy", at)

\* A command answered without a call on the engine and without a change
\* of the front end leaves everything as it was, so the commands that can
\* follow it are those of the state it was given in: a run is explored up
\* to its first such command.
Unanswered ==
    /\ ui.called = <<>>
    /\ ui.command.name \notin {"", "menu", "wyjdz"}

\* Neither thread runs once the process has ended
Alive == ~Terminated /\ ui.main # "crashed"

\* a step of the main thread that only moves on
MainAt(at) ==
    /\ ui' = [ui EXCEPT !.main = at, !.actor = "main"]
    /\ UNCHANGED <<game, garbage, last, placed, replaced, used, budget, disk>>

\* ConsoleUi::start up to its call of drawMenu, and drawMenu's first lines
MainStartMenu ==
    /\ Alive
    /\ last.op # "Game"
    /\ ui.main = "start"
    /\ ui' = [ui EXCEPT !.main = "menu", !.resume = "create", !.inMainMenu = TRUE,
                        !.actor = "main"]
    /\ UNCHANGED <<game, garbage, last, placed, replaced, used, budget, disk>>

\* drawMenu's last lines: back to where it was called from
MenuLeft(running) ==
    ui' = [ui EXCEPT !.main = ui.resume, !.inMainMenu = FALSE, !.running = running,
                     !.actor = "main",
                     !.raced = @ \/ (ui.watcher = "render" /\ game' # game)]

\* drawMenu, "1.Nowa gra"
MenuNewGame ==
    /\ Alive
    /\ ui.main = "menu"
    /\ Reset
    /\ MenuLeft(ui.running)

\* drawMenu, "3.Zaladuj ostatnia gre": the menu is left whatever the load returns
MenuLoadLatest ==
    /\ Alive
    /\ ui.main = "menu"
    /\ file.status # "missing"
    /\ ReadFileGame
    /\ MenuLeft(ui.running)

\* drawMenu, "2.Zaladuj gre" and the name of a save that exists: the menu
\* is left if the load returns true
MenuLoadNamed ==
    /\ Alive
    /\ ui.main = "menu"
    /\ file.status # "missing"
    /\ ReadFileGame
    /\ IF last'.ret = "false"
       THEN ui' = [ui EXCEPT !.actor = "main"]
       ELSE MenuLeft(ui.running)

\* drawMenu, "wyjdz"
MenuExit ==
    /\ Alive
    /\ ui.main = "menu"
    /\ UNCHANGED <<game, garbage, last, placed, replaced, used, budget, disk>>
    /\ MenuLeft(FALSE)

\* ConsoleUi::start: InitializeCriticalSection, CreateThread, and the call
\* of draw() that follows, made outside the critical section
MainCreateThread ==
    /\ Alive
    /\ ui.main = "create"
    /\ ui' = [ui EXCEPT !.main = "firstDraw", !.watcher = "poll", !.actor = "main"]
    /\ UNCHANGED <<game, garbage, last, placed, replaced, used, budget, disk>>

\* ConsoleUi::start: that draw() returns
MainFirstDrawn ==
    /\ Alive
    /\ ui.main = "firstDraw"
    /\ MainAt("loop")

\* ConsoleUi::start: while (running); after the loop running = false
MainLoopTest ==
    /\ Alive
    /\ ui.main = "loop"
    /\ ui' = [ui EXCEPT !.main = IF ui.running THEN "enter" ELSE "join",
                        !.running = FALSE \/ (ui.running /\ @), !.actor = "main"]
    /\ UNCHANGED <<game, garbage, last, placed, replaced, used, budget, disk>>

\* ConsoleUi::start: EnterCriticalSection, then clear() and draw()
MainEnter ==
    /\ Alive
    /\ ui.main = "enter"
    /\ ui.lock = "free"
    /\ ui' = [ui EXCEPT !.main = "render", !.lock = "main", !.actor = "main"]
    /\ UNCHANGED <<game, garbage, last, placed, replaced, used, budget, disk>>

\* ConsoleUi::start: draw() returns, LeaveCriticalSection
MainLeave ==
    /\ Alive
    /\ ui.main = "render"
    /\ ui' = [ui EXCEPT !.main = "poll", !.lock = "free", !.actor = "main"]
    /\ UNCHANGED <<game, garbage, last, placed, replaced, used, budget, disk>>

\* ConsoleUi::start without the test of isGameWon
MainPollWonUntested ==
    /\ Alive
    /\ ui.main = "poll"
    /\ MainAt("input")

\* ConsoleUi::start: if (game.isGameWon()), else the wait for a command
MainPollWon ==
    /\ Alive
    /\ ui.main = "poll"
    /\ MainAt(IF isGameWon THEN "won" ELSE "input")

\* ConsoleUi::start: the game is won and the player answers whether to play
\* again: "tak" resets the game and jumps to the label draw, past the
\* loop's test and the autosave; any other answer breaks out of the loop,
\* after which running = false
MainWonAnswer ==
    /\ Alive
    /\ ui.main = "won"
    /\ \E tak \in BOOLEAN :
         IF tak
         THEN /\ Reset
              /\ ui' = [ui EXCEPT !.main = "enter", !.actor = "main",
                                  !.raced = @ \/ (ui.watcher = "render" /\ game' # game)]
         ELSE /\ ui' = [ui EXCEPT !.main = "join", !.running = FALSE, !.actor = "main"]
              /\ UNCHANGED <<game, garbage, last, placed, replaced, used, budget, disk>>

\* ConsoleUi::start: getLine returns a command and handleCommand runs it.
\* A command is read while the autosave that follows it can still be explored.
MainCommand(c) ==
    /\ Alive
    /\ ui.main = "input"
    /\ ~Rejected
    /\ ~Unanswered
    /\ used.io < budget.io
    /\ handleCommand(c, "save")

\* ConsoleUi::start going on to the next command without the autosave
MainSaveSkipped ==
    /\ Alive
    /\ ui.main = "save"
    /\ UNCHANGED <<game, garbage, last, placed, replaced, used, budget, disk>>
    /\ ui' = [ui EXCEPT !.main = "loop", !.actor = "main",
                        !.command = ConsoleUi.command, !.reply = "", !.called = <<>>]

\* ConsoleUi::start: game.saveFileGame("latest"), its result ignored; the
\* line read and the message are locals of the loop's body and end with it
MainSave ==
    /\ Alive
    /\ ui.main = "save"
    /\ SaveFileGame
    /\ ui' = [ui EXCEPT !.main = "loop", !.actor = "main",
                        !.command = ConsoleUi.command, !.reply = "", !.called = <<>>]

\* ConsoleUi::start cleaning up without the wait for the watcher thread
MainJoinNoWait ==
    /\ Alive
    /\ ui.main = "join"
    /\ ui' = [ui EXCEPT !.main = "done", !.actor = "main"]
    /\ UNCHANGED <<game, garbage, last, placed, replaced, used, budget, disk>>

\* ConsoleUi::start: WaitForSingleObject(resizeThread) and the clean-up
MainJoin ==
    /\ Alive
    /\ ui.main = "join"
    /\ ui.watcher = "exit"
    /\ ui' = [ui EXCEPT !.main = "done", !.actor = "main"]
    /\ UNCHANGED <<game, garbage, last, placed, replaced, used, budget, disk>>

\* a step of the watcher thread; it holds no reference it writes through
WatcherAt(at) ==
    /\ ui' = [ui EXCEPT !.watcher = at, !.actor = "watcher"]
    /\ UNCHANGED <<game, garbage, last, placed, replaced, used, budget, disk>>

\* ResizeWatcher: while (stdUi->running)
WatcherTestRunning ==
    /\ Alive
    /\ ui.watcher = "poll"
    /\ WatcherAt(IF ui.running THEN "check" ELSE "exit")

\* ResizeWatcher: if (stdUi->inMainMenu) { Sleep(100); continue; }
WatcherTestMenu ==
    /\ Alive
    /\ ui.watcher = "check"
    /\ WatcherAt(IF ui.inMainMenu THEN "sleep" ELSE "enter")

\* ResizeWatcher: EnterCriticalSection
WatcherEnter ==
    /\ Alive
    /\ ui.watcher = "enter"
    /\ ui.lock = "free"
    /\ ui' = [ui EXCEPT !.watcher = "test", !.lock = "watcher", !.actor = "watcher"]
    /\ UNCHANGED <<game, garbage, last, placed, replaced, used, budget, disk>>

\* ResizeWatcher: if (WindowsConsole::hasResized()), then clear() and draw()
WatcherTestResized ==
    /\ Alive
    /\ ui.watcher = "test"
    /\ ui' = [ui EXCEPT !.watcher = IF ui.resized THEN "render" ELSE "leave",
                        !.resized = FALSE, !.raced = FALSE, !.actor = "watcher"]
    /\ UNCHANGED <<game, garbage, last, placed, replaced, used, budget, disk>>

\* ResizeWatcher with a draw() that turns the current card over as it shows it
WatcherRenderedTurning ==
    /\ Alive
    /\ ui.watcher = "render"
    /\ ui' = [ui EXCEPT !.watcher = "leave", !.raced = FALSE, !.actor = "watcher"]
    /\ currentCard' = [currentCard EXCEPT !.facingUp = ~@]
    /\ UNCHANGED <<deck, columns, pile, reserveSlots, garbage, last, placed, replaced, used, budget, disk>>

\* ResizeWatcher: draw() and the prompt are written.  draw() reads pile,
\* columns and reserves; if the main thread changed them meanwhile the
\* read is a data race, which shows a wrong frame or faults.
WatcherRendered ==
    /\ Alive
    /\ ui.watcher = "render"
    /\ \E fault \in (IF ui.raced THEN BOOLEAN ELSE {FALSE}) :
         ui' = [ui EXCEPT !.watcher = IF fault THEN "crashed" ELSE "leave",
                          !.main = IF fault THEN "crashed" ELSE @,
                          !.raced = FALSE, !.actor = "watcher"]
    /\ UNCHANGED <<game, garbage, last, placed, replaced, used, budget, disk>>

\* ResizeWatcher: LeaveCriticalSection, Sleep(100)
WatcherLeave ==
    /\ Alive
    /\ ui.watcher = "leave"
    /\ ui' = [ui EXCEPT !.watcher = "sleep", !.lock = "free", !.actor = "watcher"]
    /\ UNCHANGED <<game, garbage, last, placed, replaced, used, budget, disk>>

\* ResizeWatcher: the sleep ends
WatcherWake ==
    /\ Alive
    /\ ui.watcher = "sleep"
    /\ WatcherAt("poll")

\* The user resizes the console window: hasResized() will see another size
ConsoleResized ==
    /\ Alive
    /\ ui.watcher \notin {"none", "exit"}
    /\ ~ui.resized
    /\ ui' = [ui EXCEPT !.resized = TRUE, !.actor = "user"]
    /\ UNCHANGED <<game, garbage, last, placed, replaced, used, budget, disk>>

---------------------------------------------------------------------------
(* The engine on its own *)

\* Game::Game: a shuffled deck, nothing dealt, every Card default-constructed
ConstructedFrom(decks) ==
    /\ garbage \in Indeterminate
    /\ deck \in decks
    /\ currentCard = CardDefault(garbage)
    /\ columns = [i \in Cols |-> <<>>]
    /\ pile = <<>>
    /\ reserveSlots = [i \in Slots |-> CardDefault(garbage)]
    /\ last = Call("Game", <<>>, "void")
    /\ placed = [i \in Slots |-> <<>>]
    /\ replaced = [i \in Slots |-> <<>>]
    /\ used = NoneUsed
    /\ file = [status |-> "missing", bytes |-> <<>>]
    /\ saved = [intact |-> FALSE, state |-> <<>>]

Constructed == ConstructedFrom(Deck_reset)

\* A run either plays (some draws, some moves) or works the stock (draws
\* to the end of the deck and reshuffles, no move).
PlayBudget == [moves |-> MaxMoves, draws |-> MaxDraws, reshuffles |-> 0, io |-> 0]
StockBudget == [moves |-> 0, draws |-> StockDraws, reshuffles |-> MaxReshuffles, io |-> 0]

Init ==
    /\ Constructed
    /\ ui = ConsoleUi
    /\ budget \in {PlayBudget, StockBudget}

Next ==
    \/ Start /\ UNCHANGED ui
    \/ Reset /\ UNCHANGED ui
    \/ DrawCard /\ UNCHANGED ui
    \/ ReShuffle /\ UNCHANGED ui
    \/ MoveCard /\ UNCHANGED ui
    \/ MoveFromPileToColumn /\ UNCHANGED ui
    \/ MoveFromPileToReserve /\ UNCHANGED ui
    \/ MoveFromColumnToReserve /\ UNCHANGED ui
    \/ MoveFromReserveToColumn /\ UNCHANGED ui

Spec == Init /\ [][Next]_vars

\* The same engine in a debug build, where a default-constructed Card
\* holds the 0xCC fill
InitDebugFill == Init /\ garbage.suit = 204

SpecDebugFill == InitDebugFill /\ [][Next]_vars

\* A session that saves and loads: a few engine calls around the file calls
FileBudget == [moves |-> MaxFileMoves, draws |-> MaxFileDraws, reshuffles |-> 0, io |-> MaxFileCalls]

InitFile ==
    /\ Constructed
    /\ ui = ConsoleUi
    /\ budget = FileBudget

NextFile ==
    \/ Start /\ UNCHANGED ui
    \/ Reset /\ UNCHANGED ui
    \/ DrawCard /\ UNCHANGED ui
    \/ MoveFromColumnToReserve /\ UNCHANGED ui
    \/ SaveFileGame /\ UNCHANGED ui
    \/ ReadFileGame /\ UNCHANGED ui
    \/ FileCutShort /\ UNCHANGED ui
    \/ FileOverwritten /\ UNCHANGED ui
    \/ FileLocked /\ UNCHANGED ui

SpecFile == InitFile /\ [][NextFile]_vars

\* A session that saves, loads and works the stock to its end
FileStockBudget ==
    [moves |-> 0, draws |-> MaxStockFileDraws, reshuffles |-> MaxReshuffles, io |-> MaxStockFileCalls]

InitFileStock ==
    /\ Constructed
    /\ ui = ConsoleUi
    /\ budget = FileStockBudget

NextFileStock ==
    \/ Start /\ UNCHANGED ui
    \/ DrawCard /\ UNCHANGED ui
    \/ ReShuffle /\ UNCHANGED ui
    \/ SaveFileGame /\ UNCHANGED ui
    \/ ReadFileGame /\ UNCHANGED ui

SpecFileStock == InitFileStock /\ [][NextFileStock]_vars

\* isGameWon on its own, over positions late in a game.  A column that
\* counts is one of the four King-to-Ace runs a deck allows.
Run(first, second) ==
    [j \in 1 .. 13 |-> flip(Card(IF j % 2 = 1 THEN first ELSE second, 14 - j))]

Runs == {Run(Hearts, Spades), Run(Spades, Hearts), Run(Diamonds, Clubs), Run(Clubs, Diamonds)}

\* Columns that fall short of a run in one respect each
NearRuns ==
    { <<>>,
      Run(Hearts, Diamonds),                              \* one colour
      [Run(Hearts, Spades) EXCEPT ![7] = flip(@)],         \* a card face-down
      [Run(Hearts, Spades) EXCEPT ![13] = flip(@)],        \* the Ace face-down
      SubSeq(Run(Hearts, Spades), 1, 12),                  \* King to Two
      Run(Hearts, Spades) \o <<flip(Card(Spades, Ace))>>,  \* a card too many
      [Run(Hearts, Spades) EXCEPT ![2] = flip(Card(Spades, Jack))] }   \* a rank out of order

\* The run column i holds if it holds one
RunAt(i) ==
    CASE i % 4 = 0 -> Run(Hearts, Spades)
      [] i % 4 = 1 -> Run(Spades, Hearts)
      [] i % 4 = 2 -> Run(Diamonds, Clubs)
      [] i % 4 = 3 -> Run(Clubs, Diamonds)

\* The first WonFreeColumns columns hold any run or near run, each later
\* column its own run or nothing
WonColumns ==
    { [i \in Cols |-> IF i < WonFreeColumns THEN free[i]
                      ELSE IF i \in full THEN RunAt(i) ELSE <<>>] :
        free \in [0 .. (WonFreeColumns - 1) -> Runs \cup NearRuns],
        full \in SUBSET (WonFreeColumns .. 6) }

InitWon ==
    /\ garbage \in Indeterminate
    /\ columns \in WonColumns
    /\ \E rest \in BOOLEAN :
         /\ deck = <<>>
         /\ pile = IF rest THEN <<flip(Card(Clubs, King))>> ELSE <<>>
         /\ currentCard = IF rest THEN flip(Card(Clubs, King)) ELSE CardDefault(garbage)
         /\ reserveSlots = [i \in Slots |-> IF rest /\ i = Hearts
                                            THEN flip(Card(Hearts, King))
                                            ELSE CardDefault(garbage)]
    /\ last = Call("position", <<>>, "void")
    /\ ui = ConsoleUi
    /\ placed = [i \in Slots |-> <<>>]
    /\ replaced = [i \in Slots |-> <<>>]
    /\ used = NoneUsed
    /\ budget = NoneUsed
    /\ file = [status |-> "missing", bytes |-> <<>>]
    /\ saved = [intact |-> FALSE, state |-> <<>>]

NextWon == IsGameWon /\ UNCHANGED ui

SpecWon == InitWon /\ [][NextWon]_vars

\* A third outcome of shuffling a full deck, which deals the Three of
\* Spades to column 0, the Two and the Ace of Hearts to column 1, the Three
\* of Hearts to the end of column 2 and the Four of Clubs to the end of
\* column 3: the reserve of Hearts can be filled and emptied in a few moves
ReserveDeal ==
 <<
   <<0,4>>, <<0,7>>, <<0,10>>, <<0,13>>, <<1,3>>, <<1,7>>, <<1,11>>, <<2,2>>, <<2,6>>, <<2,10>>, <<2,13>>, <<3,4>>, <<3,7>>,
   <<3,11>>, <<0,5>>, <<0,8>>, <<0,11>>, <<1,1>>, <<1,4>>, <<1,8>>, <<1,13>>, <<2,3>>, <<2,7>>, <<2,11>>, <<3,1>>, <<3,5>>,
   <<3,9>>, <<3,12>>, <<0,6>>, <<0,9>>, <<0,12>>, <<1,2>>, <<1,5>>, <<1,10>>, <<2,1>>, <<2,5>>, <<2,8>>, <<2,12>>, <<3,2>>,
   <<3,6>>, <<3,10>>, <<3,13>>, <<2,4>>, <<1,6>>, <<3,8>>, <<1,12>>, <<0,3>>, <<2,9>>, <<1,9>>, <<0,1>>, <<0,2>>, <<3,3>>
 >>

\* A game that works the reserves
ReserveBudget == [moves |-> MaxReserveMoves, draws |-> MaxReserveDraws, reshuffles |-> 0, io |-> 0]

InitReserve ==
    /\ ConstructedFrom({[k \in 1 .. DeckSize |-> Canonical[CanonicalIndex(ReserveDeal[k])]]})
    /\ ui = ConsoleUi
    /\ budget = ReserveBudget

NextReserve ==
    \/ Start /\ UNCHANGED ui
    \/ DrawCard /\ UNCHANGED ui
    \/ MoveCard /\ UNCHANGED ui
    \/ MoveFromPileToColumn /\ UNCHANGED ui
    \/ MoveFromPileToReserve /\ UNCHANGED ui
    \/ MoveFromColumnToReserve /\ UNCHANGED ui
    \/ MoveFromReserveToColumn /\ UNCHANGED ui

SpecReserve == InitReserve /\ [][NextReserve]_vars

\* The end of a game: two runs are complete, the Hearts-first run waits for
\* the Three of Hearts, the Two of Spades and the Ace of Hearts, the
\* Spades-first run for the Two of Hearts and the Ace of Spades; the deck is
\* drawn to its end and the five cards lie in the pile
EndgameColumns ==
    [i \in Cols |-> CASE i = 0 -> SubSeq(RunAt(0), 1, 10)
                      [] i = 1 -> SubSeq(RunAt(1), 1, 11)
                      [] i \in {2, 3} -> RunAt(i)
                      [] OTHER -> <<>>]

EndgamePile ==
    <<flip(Card(Hearts, 2)), flip(Card(Spades, Ace)), flip(Card(Spades, 2)),
      flip(Card(Hearts, 3)), flip(Card(Hearts, Ace))>>

EndgameBudget == [moves |-> MaxEndgameMoves, draws |-> 0, reshuffles |-> 0, io |-> 0]

InitEndgame ==
    /\ garbage \in Indeterminate
    /\ deck = <<>>
    /\ columns = EndgameColumns
    /\ pile = EndgamePile
    /\ currentCard = Back(EndgamePile)
    /\ reserveSlots = [i \in Slots |-> CardDefault(garbage)]
    /\ last = Call("position", <<>>, "void")
    /\ ui = ConsoleUi
    /\ placed = [i \in Slots |-> <<>>]
    /\ replaced = [i \in Slots |-> <<>>]
    /\ used = NoneUsed
    /\ budget = EndgameBudget
    /\ file = [status |-> "missing", bytes |-> <<>>]
    /\ saved = [intact |-> FALSE, state |-> <<>>]

NextEndgame ==
    \/ DrawCard /\ UNCHANGED ui
    \/ MoveCard /\ UNCHANGED ui
    \/ MoveFromPileToColumn /\ UNCHANGED ui
    \/ MoveFromPileToReserve /\ UNCHANGED ui
    \/ MoveFromColumnToReserve /\ UNCHANGED ui
    \/ MoveFromReserveToColumn /\ UNCHANGED ui

SpecEndgame == InitEndgame /\ [][NextEndgame]_vars

\* An outcome of shuffling a full deck that deals a King to the foot of
\* columns 0 to 3, and the calls of a game played on it: every card is moved
\* onto its run as soon as it is the last of a column or of the pile
SolutionDeal ==
 <<
   <<2,1>>, <<1,2>>, <<2,3>>, <<1,4>>, <<2,5>>, <<1,6>>, <<2,7>>, <<1,8>>, <<2,9>>, <<1,10>>,
   <<2,11>>, <<1,12>>, <<1,1>>, <<2,2>>, <<1,3>>, <<2,4>>, <<1,5>>, <<2,6>>, <<1,7>>, <<2,8>>,
   <<1,9>>, <<2,10>>, <<1,11>>, <<2,12>>, <<3,7>>, <<0,6>>, <<3,5>>, <<0,4>>, <<3,3>>, <<0,2>>,
   <<3,1>>, <<0,1>>, <<0,12>>, <<3,11>>, <<0,10>>, <<3,9>>, <<0,8>>, <<3,6>>, <<0,5>>, <<3,4>>,
   <<0,3>>, <<3,2>>, <<0,9>>, <<3,8>>, <<0,7>>, <<2,13>>, <<0,11>>, <<3,10>>, <<1,13>>, <<3,12>>,
   <<3,13>>, <<0,13>>
 >>

SolutionCalls ==
 <<
   [op |-> "moveCard", args |-> <<1, 0, 1>>], [op |-> "moveCard", args |-> <<2, 0, 1>>],
   [op |-> "moveCard", args |-> <<2, 0, 1>>], [op |-> "moveCard", args |-> <<3, 0, 1>>],
   [op |-> "moveCard", args |-> <<3, 0, 1>>], [op |-> "moveCard", args |-> <<3, 0, 1>>],
   [op |-> "moveCard", args |-> <<4, 0, 1>>], [op |-> "moveCard", args |-> <<4, 0, 1>>],
   [op |-> "moveCard", args |-> <<4, 0, 1>>], [op |-> "moveCard", args |-> <<4, 0, 1>>],
   [op |-> "moveCard", args |-> <<4, 0, 1>>], [op |-> "moveCard", args |-> <<5, 0, 1>>],
   [op |-> "moveCard", args |-> <<5, 1, 1>>], [op |-> "moveCard", args |-> <<5, 1, 1>>],
   [op |-> "moveCard", args |-> <<5, 1, 1>>], [op |-> "moveCard", args |-> <<5, 1, 1>>],
   [op |-> "moveCard", args |-> <<5, 1, 1>>], [op |-> "moveCard", args |-> <<6, 1, 1>>],
   [op |-> "moveCard", args |-> <<6, 1, 1>>], [op |-> "moveCard", args |-> <<6, 1, 1>>],
   [op |-> "moveCard", args |-> <<6, 1, 1>>], [op |-> "moveCard", args |-> <<6, 1, 1>>],
   [op |-> "moveCard", args |-> <<6, 1, 1>>], [op |-> "moveCard", args |-> <<6, 1, 1>>],
   [op |-> "drawCard", args |-> <<>>], [op |-> "moveFromPileToColumn", args |-> <<2>>],
   [op |-> "drawCard", args |-> <<>>], [op |-> "moveFromPileToColumn", args |-> <<2>>],
   [op |-> "drawCard", args |-> <<>>], [op |-> "moveFromPileToColumn", args |-> <<2>>],
   [op |-> "drawCard", args |-> <<>>], [op |-> "moveFromPileToColumn", args |-> <<2>>],
   [op |-> "drawCard", args |-> <<>>], [op |-> "moveFromPileToColumn", args |-> <<2>>],
   [op |-> "drawCard", args |-> <<>>], [op |-> "moveFromPileToColumn", args |-> <<2>>],
   [op |-> "drawCard", args |-> <<>>], [op |-> "moveFromPileToColumn", args |-> <<2>>],
   [op |-> "drawCard", args |-> <<>>], [op |-> "moveFromPileToColumn", args |-> <<2>>],
   [op |-> "drawCard", args |-> <<>>], [op |-> "moveFromPileToColumn", args |-> <<2>>],
   [op |-> "drawCard", args |-> <<>>], [op |-> "moveFromPileToColumn", args |-> <<2>>],
   [op |-> "drawCard", args |-> <<>>], [op |-> "moveFromPileToColumn", args |-> <<2>>],
   [op |-> "drawCard", args |-> <<>>], [op |-> "moveFromPileToColumn", args |-> <<2>>],
   [op |-> "drawCard", args |-> <<>>], [op |-> "moveFromPileToColumn", args |-> <<3>>],
   [op |-> "drawCard", args |-> <<>>], [op |-> "moveFromPileToColumn", args |-> <<3>>],
   [op |-> "drawCard", args |-> <<>>], [op |-> "moveFromPileToColumn", args |-> <<3>>],
   [op |-> "drawCard", args |-> <<>>], [op |-> "moveFromPileToColumn", args |-> <<3>>],
   [op |-> "drawCard", args |-> <<>>], [op |-> "moveFromPileToColumn", args |-> <<3>>],
   [op |-> "drawCard", args |-> <<>>], [op |-> "moveFromPileToColumn", args |-> <<3>>],
   [op |-> "drawCard", args |-> <<>>], [op |-> "moveFromPileToColumn", args |-> <<3>>],
   [op |-> "drawCard", args |-> <<>>], [op |-> "moveFromPileToColumn", args |-> <<3>>],
   [op |-> "drawCard", args |-> <<>>], [op |-> "moveFromPileToColumn", args |-> <<3>>],
   [op |-> "drawCard", args |-> <<>>], [op |-> "moveFromPileToColumn", args |-> <<3>>],
   [op |-> "drawCard", args |-> <<>>], [op |-> "moveFromPileToColumn", args |-> <<3>>],
   [op |-> "drawCard", args |-> <<>>], [op |-> "moveFromPileToColumn", args |-> <<3>>]
 >>

SolutionBudget == [moves |-> 48, draws |-> 24, reshuffles |-> 0, io |-> 0]

InitSolution ==
    /\ ConstructedFrom({[k \in 1 .. DeckSize |-> Canonical[CanonicalIndex(SolutionDeal[k])]]})
    /\ ui = ConsoleUi
    /\ budget = SolutionBudget

\* the calls made so far that drew or moved a card
Played == used.moves + used.draws

\* the call this step makes is the next one of the game played
Scripted ==
    /\ Played < Len(SolutionCalls)
    /\ last'.op = SolutionCalls[Played + 1].op
    /\ last'.args = SolutionCalls[Played + 1].args

NextSolution ==
    \/ Start /\ UNCHANGED ui
    \/ DrawCard /\ Scripted /\ UNCHANGED ui
    \/ MoveCard /\ Scripted /\ UNCHANGED ui
    \/ MoveFromPileToColumn /\ Scripted /\ UNCHANGED ui

SpecSolution == InitSolution /\ [][NextSolution]_vars

\* The commands given to handleCommand
Digits == <<"0", "1", "2", "3", "4", "5", "6", "7", "8", "9">>

PlainColumnWords == {<<Digits[n + 1]>> : n \in 0 .. 8}
ColumnWords == PlainColumnWords \cup {<<"-", "1">>, <<"x">>, <<"2", "x">>}
ReserveWords == {<<Digits[n + 1]>> : n \in 0 .. 5} \cup {<<"x">>}
TargetWords == {<<"0">>, <<"1">>, <<"2">>, <<"7">>, <<"8">>}
CountWords == {<<Digits[n + 1]>> : n \in 0 .. MaxCount}
NameWords == {<<"a">>, <<".">>, <<"a", "/", "b">>, <<>>}

UiCommands ==
    {[name |-> n, args |-> <<>>] :
        n \in {"d", "dobierz", "przetasuj", "reset", "wyjdz", "menu", "pomoc", "zapisz",
               "kr", "x"}}
    \cup {[name |-> "p", args |-> <<f, t, c>>] :
            f \in PlainColumnWords, t \in TargetWords, c \in CountWords}
    \cup {[name |-> "pk", args |-> <<t>>] : t \in ColumnWords}
    \cup {[name |-> "pr", args |-> <<t>>] : t \in ReserveWords}
    \cup {[name |-> "kr", args |-> <<f, t>>] : f \in ColumnWords, t \in ReserveWords}
    \cup {[name |-> "rk", args |-> <<f, t>>] : f \in ReserveWords, t \in ColumnWords}
    \cup {[name |-> "przenies", args |-> a] :
            a \in {<<<<"1">>, <<"2">>>>, <<<<"x">>, <<"2">>, <<"1">>>>, <<<<"0">>, <<"2">>, <<"1">>>>}}
    \cup {[name |-> "z_puli_do_kolumny", args |-> <<t>>] : t \in {<<"0">>, <<"1">>}}
    \cup {[name |-> "z_puli_do_rezerwy", args |-> <<t>>] : t \in {<<"0">>, <<"1">>}}
    \cup {[name |-> "z_kolumny_do_rezerwy", args |-> <<f, <<"1">>>>] : f \in {<<"0">>, <<"1">>}}
    \cup {[name |-> "z_rezerwy_do_kolumny", args |-> <<<<"1">>, t>>] : t \in {<<"0">>, <<"1">>}}
    \cup {[name |-> "zapisz", args |-> <<w>>] : w \in NameWords}

\* A session at the console in which the watcher thread is not scheduled
UiBudget == [moves |-> MaxUiMoves, draws |-> MaxUiDraws, reshuffles |-> 0, io |-> MaxUiCalls]

InitUi ==
    /\ Constructed
    /\ ui = ConsoleUi
    /\ budget = UiBudget

NextUi ==
    \/ Start /\ UNCHANGED ui
    \/ MainStartMenu
    \/ MenuNewGame
    \/ MenuLoadLatest
    \/ MenuLoadNamed
    \/ MenuExit
    \/ MainCreateThread
    \/ MainFirstDrawn
    \/ MainLoopTest
    \/ MainEnter
    \/ MainLeave
    \/ MainPollWon
    \/ \E c \in UiCommands : MainCommand(c)
    \/ MainSave

SpecUi == InitUi /\ [][NextUi]_vars

\* A session at the console that draws the deck to its end and reshuffles
StockCommands == {[name |-> n, args |-> <<>>] : n \in {"d", "przetasuj"}}

UiStockBudget ==
    [moves |-> 0, draws |-> StockDraws, reshuffles |-> MaxReshuffles, io |-> MaxStockUiCalls]

InitUiStock ==
    /\ Constructed
    /\ ui = ConsoleUi
    /\ budget = UiStockBudget

NextUiStock ==
    \/ Start /\ UNCHANGED ui
    \/ MainStartMenu
    \/ MenuNewGame
    \/ MenuExit
    \/ MainCreateThread
    \/ MainFirstDrawn
    \/ MainLoopTest
    \/ MainEnter
    \/ MainLeave
    \/ MainPollWon
    \/ \E c \in StockCommands : MainCommand(c)
    \/ MainSave

SpecUiStock == InitUiStock /\ [][NextUiStock]_vars

\* The commands given while both threads run
ThreadCommands ==
    {[name |-> n, args |-> <<>>] : n \in {"d", "menu", "wyjdz"}}

ThreadBudget ==
    [moves |-> 0, draws |-> MaxThreadDraws, reshuffles |-> 0, io |-> MaxThreadCalls]

\* The position of a won game: four columns hold the runs, nothing else is left
WonPosition == [i \in Cols |-> IF i < 4 THEN RunAt(i) ELSE <<>>]

\* Late in a session: the command that won the game has been handled and
\* autosaved, and the main thread is back at the loop's test
WonInLoop ==
    /\ garbage \in Indeterminate
    /\ deck = <<>>
    /\ currentCard = flip(Card(Spades, Ace))
    /\ columns = WonPosition
    /\ pile = <<>>
    /\ reserveSlots = [i \in Slots |-> CardDefault(garbage)]
    /\ last = Call("position", <<>>, "void")
    /\ placed = [i \in Slots |-> <<>>]
    /\ replaced = [i \in Slots |-> <<>>]
    /\ used = NoneUsed
    /\ file = [status |-> "present", bytes |-> saveFileGameBytes]
    /\ saved = [intact |-> TRUE, state |-> Tableau]
    /\ ui = [ConsoleUi EXCEPT !.main = "loop", !.resume = "save", !.watcher = "poll",
                              !.inMainMenu = FALSE]

InitThreads ==
    /\ \/ Constructed /\ ui = ConsoleUi
       \/ WonInLoop
    /\ budget = ThreadBudget

NextThreads ==
    \/ Start /\ UNCHANGED ui
    \/ MainStartMenu
    \/ MenuNewGame
    \/ MenuLoadLatest
    \/ MenuLoadNamed
    \/ MenuExit
    \/ MainCreateThread
    \/ MainFirstDrawn
    \/ MainLoopTest
    \/ MainEnter
    \/ MainLeave
    \/ MainPollWon
    \/ MainWonAnswer
    \/ \E c \in ThreadCommands : MainCommand(c)
    \/ MainSave
    \/ MainJoin
    \/ WatcherTestRunning
    \/ WatcherTestMenu
    \/ WatcherEnter
    \/ WatcherTestResized
    \/ WatcherRendered
    \/ WatcherLeave
    \/ WatcherWake
    \/ ConsoleResized

SpecThreads == InitThreads /\ [][NextThreads]_vars

\* The steps a thread takes by itself: the system schedules each thread
\* again and again.  What waits for the user (a command, a menu choice,
\* the answer after a won game, a resize) is not among them.
MainRuns ==
    \/ MainStartMenu
    \/ MainCreateThread
    \/ MainFirstDrawn
    \/ MainLoopTest
    \/ MainEnter
    \/ MainLeave
    \/ MainPollWon
    \/ MainSave
    \/ MainJoin

WatcherRuns ==
    \/ WatcherTestRunning
    \/ WatcherTestMenu
    \/ WatcherEnter
    \/ WatcherTestResized
    \/ WatcherRendered
    \/ WatcherLeave
    \/ WatcherWake

SpecThreadsFair == SpecThreads /\ WF_vars(MainRuns) /\ WF_vars(WatcherRuns)

---------------------------------------------------------------------------
(* Vocabulary of the properties, stated apart from the engine's own tests *)

Pair(card) == <<card.suit, card.rank>>

IsCard(card, suit, rank) == card.valid /\ card.suit = suit /\ card.rank = rank

ColourOf(card) == IF card.suit \in {0, 1} THEN "red" ELSE "black"

Succeeded == last.ret = "true"

\* the landing rule of the columns: a King on an empty column, otherwise
\* the other colour and one rank below the column's last card
LandingRule(dest, card) ==
    \/ dest = <<>> /\ card.rank = 13
    \/ dest # <<>> /\ ColourOf(dest[Len(dest)]) # ColourOf(card)
                  /\ dest[Len(dest)].rank = card.rank + 1

\* the foundation rule of the reserves, on the occupant before the call
FoundationRule(occupant, slot, card) ==
    /\ card.suit = slot
    /\ \/ ~occupant.valid /\ card.rank = 1
       \/ occupant.valid /\ card.rank > occupant.rank

\* every card held by the deck, the columns, the pile and the occupied reserves
AllCards ==
    deck \o columns[0] \o columns[1] \o columns[2] \o columns[3]
         \o columns[4] \o columns[5] \o columns[6] \o pile
         \o SelectSeq([k \in 1 .. 4 |-> reserveSlots[k - 1]], LAMBDA c : c.valid)

CanonicalPairs == (0 .. 3) \X (1 .. 13)

StrictlyIncreasing(ranks) ==
    \A k \in 1 .. (Len(ranks) - 1) : ranks[k] < ranks[k + 1]

---------------------------------------------------------------------------
(* C1: conservation. In every reachable state the (suit, rank) pairs over  *)
(* the deck, the seven columns, the pile and the valid reserve occupants   *)
(* are the canonical 52, each exactly once.                                *)
C1_Conservation ==
    /\ Len(AllCards) = 52
    /\ { Pair(AllCards[k]) : k \in 1 .. Len(AllCards) } = CanonicalPairs

(* C2: landing rule. moveCard (with 1 <= count <= size and the run's first *)
(* card face-up), moveFromPileToColumn (pile non-empty) and                *)
(* moveFromReserveToColumn (slot occupied) return true if and only if the  *)
(* moving card may land on the destination column.                         *)
C2_Step ==
    LET a == last'.args IN
    /\ (/\ last'.op = "moveCard"
        /\ a[3] >= 1 /\ a[3] <= Len(columns[a[1]])
        /\ columns[a[1]][Len(columns[a[1]]) - a[3] + 1].facingUp)
         => (last'.ret = "true" <=>
               LandingRule(columns[a[2]], columns[a[1]][Len(columns[a[1]]) - a[3] + 1]))
    /\ (last'.op = "moveFromPileToColumn" /\ pile # <<>>)
         => (last'.ret = "true" <=> LandingRule(columns[a[1]], pile[Len(pile)]))
    /\ (last'.op = "moveFromReserveToColumn" /\ reserveSlots[a[1]].valid)
         => (last'.ret = "true" <=> LandingRule(columns[a[2]], reserveSlots[a[1]]))

C2_LandingRule == [][C2_Step]_vars

\* the Six of Hearts drawn from the stock has landed on the Seven of Spades
C2_Witness ==
    /\ last.op = "moveFromPileToColumn" /\ Succeeded
    /\ LET col == columns[last.args[1]] IN
         /\ Len(col) >= 2
         /\ IsCard(col[Len(col)], 0, 6)
         /\ IsCard(col[Len(col) - 1], 3, 7)

(* C3: foundation rule. moveFromPileToReserve (pile non-empty) and         *)
(* moveFromColumnToReserve (last card of the column face-up) return true   *)
(* if and only if the card's suit is the slot and the slot is empty and    *)
(* the card an Ace, or occupied by a lower rank; on success the card is    *)
(* the slot's occupant and has left the pile / the column.                 *)
C3_Step ==
    LET a == last'.args IN
    /\ (last'.op = "moveFromPileToReserve" /\ pile # <<>>)
         => LET card == pile[Len(pile)] IN
            /\ last'.ret = "true" <=> FoundationRule(reserveSlots[a[1]], a[1], card)
            /\ last'.ret = "true" =>
                 /\ reserveSlots'[a[1]] = card
                 /\ pile' = SubSeq(pile, 1, Len(pile) - 1)
            /\ last'.ret # "true" => last'.ret = "false"
    /\ (/\ last'.op = "moveFromColumnToReserve"
        /\ columns[a[1]] # <<>>
        /\ columns[a[1]][Len(columns[a[1]])].facingUp)
         => LET col == columns[a[1]]
                card == col[Len(col)]
            IN
            /\ last'.ret = "true" <=> FoundationRule(reserveSlots[a[2]], a[2], card)
            /\ last'.ret = "true" =>
                 /\ reserveSlots'[a[2]] = card
                 /\ Len(columns'[a[1]]) = Len(col) - 1
                 /\ \A k \in 1 .. (Len(col) - 1) : Pair(columns'[a[1]][k]) = Pair(col[k])
            /\ last'.ret # "true" => last'.ret = "false"

C3_FoundationRule == [][C3_Step]_vars

\* a column's last card has been put on an occupied slot
C3_Witness ==
    /\ last.op = "moveFromColumnToReserve" /\ Succeeded
    /\ Len(placed[last.args[2]]) >= 2
    /\ reserveSlots[last.args[2]].rank > 1

(* C4: the rank-gap scenario. With reserves[0] empty the Ace of Hearts     *)
(* from the pile is accepted; with the Ace of Hearts in reserves[0] the    *)
(* Three of Hearts is rejected and the slot still holds the Ace; the Two   *)
(* of Hearts is then accepted.                                             *)
C4_Step ==
    (last'.op = "moveFromPileToReserve" /\ last'.args = <<0>> /\ pile # <<>>)
      => LET card == pile[Len(pile)] IN
         /\ (~reserveSlots[0].valid /\ IsCard(card, 0, 1)) => last'.ret = "true"
         /\ (IsCard(reserveSlots[0], 0, 1) /\ IsCard(card, 0, 3))
              => (last'.ret = "false" /\ IsCard(reserveSlots'[0], 0, 1))
         /\ (IsCard(reserveSlots[0], 0, 1) /\ IsCard(card, 0, 2)) => last'.ret = "true"

C4_RankGapScenario == [][C4_Step]_vars

(* C5: a rejected call changes nothing. Whenever drawCard, moveCard,       *)
(* moveFromPileToColumn, moveFromPileToReserve, moveFromColumnToReserve or *)
(* moveFromReserveToColumn returns false, deck, columns, pile, reserves    *)
(* and currentCard are as before; moveCard with count above the size of    *)
(* the source column is such a call.                                       *)
RuleCalls ==
    { "drawCard", "moveCard", "moveFromPileToColumn", "moveFromPileToReserve",
      "moveFromColumnToReserve", "moveFromReserveToColumn" }

C5_Step ==
    /\ (last'.op \in RuleCalls /\ last'.ret = "false")
         => UNCHANGED <<deck, columns, pile, reserveSlots, currentCard>>
    /\ (last'.op = "moveCard" /\ last'.args[3] > Len(columns[last'.args[1]]))
         => (last'.ret = "false"
             /\ UNCHANGED <<deck, columns, pile, reserveSlots, currentCard>>)

RejectedCallChangesNothing == [][C5_Step]_vars

\* moveCard was called with more cards than the source column holds
C5_Witness ==
    /\ last.op = "moveCard" /\ last.ret = "false"
    /\ last.args[3] > Len(columns[last.args[1]])
    /\ columns[last.args[1]] # <<>>

(* C6: save/load round trip. Loading a file that saveFileGame wrote and    *)
(* nothing has touched since returns true and leaves deck, columns, pile   *)
(* and reserves equal, card by card and in order, to what they were at the *)
(* save, with the same number of cards in each, the deck included.         *)
C6_RoundTrip ==
    (last.op = "readFileGame" /\ saved.intact)
      => (Succeeded /\ Tableau = saved.state)

(* C7: reset, whatever the state before it, leaves column i with i+1 cards *)
(* of which exactly the last is face-up, 24 cards in the deck, an empty    *)
(* pile and four empty reserves.                                           *)
C7_ResetDeals ==
    last.op = "reset" =>
      /\ \A i \in 0 .. 6 :
           /\ Len(columns[i]) = i + 1
           /\ \A k \in 1 .. (i + 1) : columns[i][k].facingUp <=> (k = i + 1)
      /\ Len(deck) = 24
      /\ pile = <<>>
      /\ \A i \in 0 .. 3 : ~reserveSlots[i].valid

\* reset has run
C7_Witness ==
    /\ last.op = "reset"
    /\ Len(deck) + Len(columns[6]) = 31

(* C8: reveal invariant. After a successful moveCard or                    *)
(* moveFromColumnToReserve the source column, if it still holds cards,     *)
(* ends with a face-up card.                                               *)
C8_RevealInvariant ==
    /\ (last.op = "moveCard" /\ Succeeded)
         => LET col == columns[last.args[1]] IN
              col = <<>> \/ col[Len(col)].facingUp
    /\ (last.op = "moveFromColumnToReserve" /\ Succeeded)
         => LET col == columns[last.args[1]] IN
              col = <<>> \/ col[Len(col)].facingUp

\* a card was moved off a column and the card below it, which lay on a
\* face-down card, now ends the column
C8_Witness ==
    /\ last.op = "moveCard" /\ Succeeded
    /\ last.args[1] # last.args[2]
    /\ LET col == columns[last.args[1]] IN
         /\ Len(col) >= 2
         /\ col[Len(col)].facingUp
         /\ ~col[Len(col) - 1].facingUp

(* C9: foundation monotonicity. For every slot i the cards put into        *)
(* reserves[i] since the last reset have strictly increasing rank, and a   *)
(* valid occupant of reserves[i] has suit i.                               *)
C9_FoundationMonotonicity ==
    /\ \A i \in 0 .. 3 : StrictlyIncreasing(placed[i])
    /\ \A i \in 0 .. 3 : reserveSlots[i].valid => reserveSlots[i].suit = i

\* the file starts with the 9 bytes of the magic
HasMagic(f) ==
    /\ f.status = "present"
    /\ Len(f.bytes) >= 9
    /\ SubSeq(f.bytes, 1, 9) = magicNumber

(* C10: a failed load. readFileGame on a file that cannot be opened, or    *)
(* whose first 9 bytes are not the magic "Solitaire", returns false and    *)
(* leaves deck, columns, pile and reserves as they were.                   *)
C10_Step ==
    (last'.op = "readFileGame" /\ (file.status = "locked" \/ ~HasMagic(file)))
      => (last'.ret = "false" /\ UNCHANGED <<deck, columns, pile, reserveSlots>>)

C10_FailedLoad == [][C10_Step]_vars

(* C12: loading never ends the program. readFileGame on a file that starts *)
(* with the magic, whatever follows it (a file cut short included),        *)
(* completes and returns true or false.                                    *)
C12_Step ==
    (last'.op = "readFileGame" /\ HasMagic(file))
      => last'.ret \in {"true", "false"}

C12_LoadNeverAborts == [][C12_Step]_vars

\* a column that counts for a win: thirteen cards, King down to Ace, all
\* face-up, the colours alternating
KingToAce(col) ==
    /\ Len(col) = 13
    /\ \A j \in 1 .. 13 : col[j].rank = 14 - j /\ col[j].facingUp
    /\ \A j \in 1 .. 12 : ColourOf(col[j]) # ColourOf(col[j + 1])

(* C15: isGameWon. It returns true if and only if exactly four of the      *)
(* seven columns are King-to-Ace columns; the answer is a function of the  *)
(* columns alone, whatever deck, pile and reserves hold.                   *)
C15_IsGameWon ==
    last.op = "isGameWon"
      => (Succeeded <=> Cardinality({i \in 0 .. 6 : KingToAce(columns[i])}) = 4)

\* a win declared over a non-empty pile and reserve, next to a column of
\* thirteen cards that does not count
C15_Witness ==
    /\ last.op = "isGameWon" /\ Succeeded
    /\ pile # <<>> /\ reserveSlots[0].valid
    /\ \E i \in Cols : Len(columns[i]) = 13 /\ ~KingToAce(columns[i])

(* C16: moveCard rejects a bad count and a face-down run. moveCard returns *)
(* false when count <= 0 or count exceeds the size of the source column,   *)
(* and when the first card of the run is face-down, whatever the           *)
(* destination column holds.                                               *)
C16_Step ==
    LET a == last'.args
        from == columns[a[1]]
    IN last'.op = "moveCard"
         => /\ (a[3] <= 0 \/ a[3] > Len(from)) => last'.ret = "false"
            /\ (a[3] >= 1 /\ a[3] <= Len(from) /\ ~from[Len(from) - a[3] + 1].facingUp)
                 => last'.ret = "false"

C16_MoveCardRejects == [][C16_Step]_vars

\* a run of two whose first card is face-down was refused although the run
\* would fit the destination
C16_Witness ==
    /\ last.op = "moveCard" /\ Rejected
    /\ LET from == columns[last.args[1]]
           count == last.args[3]
       IN /\ count = 2 /\ count <= Len(from)
          /\ ~from[Len(from) - count + 1].facingUp
          /\ last.args[1] # last.args[2]
          /\ LandingRule(columns[last.args[2]], from[Len(from) - count + 1])

(* C17: the slot after a move off the reserve. On every successful         *)
(* moveFromReserveToColumn the moved card is appended to the column; the   *)
(* slot then holds a valid face-up card of the same suit and of the rank   *)
(* one below if the moved card was not an Ace, and is empty if it was.     *)
C17_Step ==
    (last'.op = "moveFromReserveToColumn" /\ last'.ret = "true")
      => LET slot == last'.args[1]
             toCol == last'.args[2]
             card == reserveSlots[slot]
         IN /\ columns'[toCol] = Append(columns[toCol], card)
            /\ IF card.rank # Ace
               THEN /\ reserveSlots'[slot].valid
                    /\ reserveSlots'[slot].facingUp
                    /\ reserveSlots'[slot].suit = card.suit
                    /\ reserveSlots'[slot].rank = card.rank - 1
               ELSE ~reserveSlots'[slot].valid

C17_ReserveReplenished == [][C17_Step]_vars

\* the card turned face-up
FaceUp(card) == [card EXCEPT !.facingUp = TRUE]

\* the card turned face-down
FaceDown(card) == [card EXCEPT !.facingUp = FALSE]

\* the cards of a sequence with the number of times each occurs
BagOf(cards) ==
    [c \in {cards[k] : k \in 1 .. Len(cards)} |->
        Cardinality({k \in 1 .. Len(cards) : cards[k] = c})]

(* C13: drawCard. It returns false if and only if the deck is empty;       *)
(* otherwise it takes the deck's last card, appends it face-up to the      *)
(* pile, makes currentCard that card and returns true; columns and         *)
(* reserves are unchanged.                                                 *)
C13_Step ==
    last'.op = "drawCard"
      => /\ last'.ret = "false" <=> deck = <<>>
         /\ deck # <<>>
              => /\ deck' = PopBack(deck)
                 /\ pile' = Append(pile, FaceUp(Back(deck)))
                 /\ currentCard' = Back(pile')
                 /\ UNCHANGED <<columns, reserveSlots>>

C13_DrawCard == [][C13_Step]_vars

(* C14: reShuffle. Called with the deck empty it leaves the pile empty and *)
(* the deck holding the cards that were in the pile, as many of each, all  *)
(* of them face-down; columns and reserves are unchanged.  The deck then   *)
(* gives as many draws as the pile had cards.                              *)
C14_Step ==
    last'.op = "reShuffle"
      => /\ pile' = <<>>
         /\ Len(deck') = Len(pile)
         /\ BagOf(deck') = BagOf([k \in 1 .. Len(pile) |-> FaceDown(pile[k])])
         /\ UNCHANGED <<columns, reserveSlots>>

C14_ReShuffle == [][C14_Step]_vars

\* a step in which handleCommand has taken a command
Commanded == ui.main = "input" /\ ui'.main # "input"

\* the cards of a collection, each as its four fields, one after another
RECURSIVE CardFields(_)
CardFields(cards) ==
    IF cards = <<>> THEN <<>> ELSE writeCard(Head(cards)) \o CardFields(Tail(cards))

\* a collection prefixed by its card count
Counted(cards) == <<Len(cards)>> \o CardFields(cards)

(* C11: save returns false if the file cannot be opened for writing, and
   otherwise returns true after writing the magic, the deck, the seven
   columns and the pile, each prefixed by its card count, and the four
   reserves, in this order; the zapisz command reports a successful save
   exactly when save returned true. *)
C11_Step ==
    /\ (last'.op = "saveFileGame" /\ used'.io = used.io + 1)
         => IF file.status = "locked"
            THEN last'.ret = "false"
            ELSE /\ last'.ret = "true"
                 /\ file'.bytes =
                      magicNumber \o Counted(deck)
                        \o Counted(columns[0]) \o Counted(columns[1]) \o Counted(columns[2])
                        \o Counted(columns[3]) \o Counted(columns[4]) \o Counted(columns[5])
                        \o Counted(columns[6])
                        \o Counted(pile)
                        \o CardFields(<<reserveSlots[0], reserveSlots[1],
                                        reserveSlots[2], reserveSlots[3]>>)
    /\ (Commanded /\ ui'.command.name = "zapisz")
         => (ui'.reply = "Zapisano plik" <=> (ui'.called # <<>> /\ last'.ret = "true"))

C11_Save == [][C11_Step]_vars

\* the indices an engine call was given lie inside the arrays they index
CallInRange(call) ==
    CASE call.op = "moveCard" -> call.args[1] \in Cols /\ call.args[2] \in Cols
      [] call.op = "moveFromPileToColumn" -> call.args[1] \in Cols
      [] call.op = "moveFromPileToReserve" -> call.args[1] \in Slots
      [] call.op = "moveFromColumnToReserve" -> call.args[1] \in Cols /\ call.args[2] \in Slots
      [] call.op = "moveFromReserveToColumn" -> call.args[1] \in Slots /\ call.args[2] \in Cols
      [] OTHER -> TRUE

\* where a command's column numbers and reserve numbers stand
ColumnPlaces(name) ==
    CASE name \in {"p", "przenies"} -> {1, 2}
      [] name \in {"pk", "z_puli_do_kolumny", "kr", "z_kolumny_do_rezerwy"} -> {1}
      [] name \in {"rk", "z_rezerwy_do_kolumny"} -> {2}
      [] OTHER -> {}

ReservePlaces(name) ==
    CASE name \in {"pr", "z_puli_do_rezerwy", "rk", "z_rezerwy_do_kolumny"} -> {1}
      [] name \in {"kr", "z_kolumny_do_rezerwy"} -> {2}
      [] OTHER -> {}

\* the command holds a column number outside 1..7 or a reserve number outside 1..4
NumberOutside(c) ==
    \E k \in 1 .. Len(c.args) :
        LET n == stoi(c.args[k]) IN
          /\ ~n.thrown
          /\ \/ k \in ColumnPlaces(c.name) /\ n.value \notin 1 .. columnsSize
             \/ k \in ReservePlaces(c.name) /\ n.value \notin 1 .. reserveSlotSize

(* C18: for every command text, handleCommand calls an engine operation only
   with column indices in 0..6 and reserve-slot indices in 0..3, and a
   command of przenies/p, pk, pr, kr or rk with a column number outside 1..7
   or a reserve number outside 1..4 is answered with an error message and
   no engine operation is called. *)
C18_Step ==
    Commanded
      => /\ \A k \in 1 .. Len(ui'.called) : CallInRange(ui'.called[k])
         /\ NumberOutside(ui'.command)
              => /\ ui'.called = <<>>
                 /\ ui'.reply \notin {"", moved, notMoved}

C18_IndicesValidated == [][C18_Step]_vars

(* C19: the watcher thread's clear and redraw of the game screen never runs
   at the same time as the main thread's clear and draw of the game screen,
   the first draw after the watcher is started and the menu drawn from the
   menu command included. *)
C19_RenderingExclusive ==
    ~(ui.watcher = "render" /\ ui.main \in {"firstDraw", "render", "menu"})

(* C20: in every interleaving, each change to the deck, the columns, the
   pile, the reserves or currentCard is made by the main thread; the watcher
   thread only polls for a resize and redraws. *)
C20_Step == (game' # game) => ui'.actor = "main"

C20_WatcherNeverMutates == [][C20_Step]_vars

\* the watcher has redrawn a game in which the main thread has drawn a card
C20_Witness ==
    /\ ui.actor = "watcher"
    /\ ui.watcher = "leave"
    /\ pile # <<>>
    /\ last.op = "drawCard"

\* the main thread has deleted the critical section
Deleted == ui.main = "done"

(* C21: once running is false the watcher thread eventually leaves its loop
   and exits without holding the critical section, the main thread deletes
   the critical section only after the watcher has exited, and the program
   terminates. *)
C21_Shutdown ==
    /\ [](Deleted => ui.watcher = "exit")
    /\ [](ui.watcher = "exit" => ui.lock # "watcher")
    /\ (~ui.running) ~> (Deleted /\ ui.watcher = "exit")

\* the program has ended after a wyjdz command given while the watcher was in its loop
C21_Witness ==
    /\ Deleted
    /\ ui.watcher = "exit"
    /\ used.io > 0

(* C22: after every command the main loop has processed, the game is saved
   to the latest slot before the next command is read: the command is
   followed by the autosave, the autosave writes the state the command
   produced, and whenever the loop waits for a command right after an
   autosave the file holds the state of the game. *)
C22_Step ==
    /\ Commanded
         => \/ Terminated'
            \/ ui'.main = "save"
            \/ ui'.main = "menu" /\ ui'.resume = "save"
    /\ (ui.main = "menu" /\ ui.resume = "save" /\ ui'.main # "menu")
         => ui'.main = "save" \/ Terminated'
    /\ (ui.main = "save" /\ ui'.main \notin {"save", "crashed"})
         => /\ file' = [status |-> "present", bytes |-> saveFileGameBytes]
            /\ game' = game

C22_Autosave ==
    /\ [][C22_Step]_vars
    /\ []((ui.main = "input" /\ last.op = "saveFileGame")
            => (file.status = "present" /\ file.bytes = saveFileGameBytes))

\* the loop waits for a command after a draw has been autosaved
C22_Witness ==
    /\ ui.main = "input"
    /\ last.op = "saveFileGame"
    /\ pile # <<>>

\* in this column only the last card may be face-up
OnlyLastFaceUp(col) == \A j \in 1 .. (Len(col) - 1) : ~col[j].facingUp

(* C23: after every user-visible operation (start, drawCard, every move,
   reshuffle), in every column only the last card may be face-up: all
   cards below the top of a column are face-down. *)
C23_OnlyLastFaceUp ==
    (last.op \in {"start", "drawCard", "reShuffle", "moveCard", "moveFromPileToColumn",
                  "moveFromPileToReserve", "moveFromColumnToReserve",
                  "moveFromReserveToColumn"})
      => \A i \in Cols : OnlyLastFaceUp(columns[i])

(* C23 as amended: after start and after reset, in every column the last
   card is face-up and all cards below it are face-down; after that no
   operation turns a card of a column face-down, and the only card of a
   column an operation turns face-up is the new last card of a column it
   took cards from, so that the cards a move puts on a face-up card stay
   face-up above it. *)
C23_Step ==
    IF last'.op \in {"start", "reset"}
    THEN \A i \in Cols :
           /\ OnlyLastFaceUp(columns'[i])
           /\ columns'[i] # <<>> /\ columns'[i][Len(columns'[i])].facingUp
    ELSE \A i \in Cols :
           \A j \in 1 .. Len(columns'[i]) :
             (j <= Len(columns[i]) /\ columns'[i][j].facingUp # columns[i][j].facingUp)
               => /\ columns'[i][j].facingUp
                  /\ j = Len(columns'[i])
                  /\ Len(columns'[i]) < Len(columns[i])

C23_FacesKept == [][C23_Step]_vars

\* a move has put a face-up card on a face-up card
C23_Witness ==
    /\ last.op = "moveCard" /\ Succeeded
    /\ LET col == columns[last.args[2]] IN
         /\ Len(col) >= 2
         /\ col[Len(col)].facingUp
         /\ col[Len(col) - 1].facingUp

(* C24: while a reserve slot stays occupied its occupant's rank only
   increases: for every engine operation and every slot i, if reserves[i]
   is valid both before and after the operation then its rank after is
   greater than or equal to its rank before. *)
C24_OriginalStep ==
    \A i \in Slots :
        (reserveSlots[i].valid /\ reserveSlots'[i].valid)
          => reserveSlots'[i].rank >= reserveSlots[i].rank

C24_RankOnlyIncreases == [][C24_OriginalStep]_vars

(* C24 as amended: while a reserve slot stays occupied, no operation but a
   successful moveFromReserveToColumn from that slot lowers its occupant's
   rank (a card put into the slot raises it), and a successful
   moveFromReserveToColumn from the slot lowers it by exactly one. *)
C24_Step ==
    \A i \in Slots :
        (reserveSlots[i].valid /\ reserveSlots'[i].valid)
          => IF /\ last'.op = "moveFromReserveToColumn"
                /\ last'.ret = "true"
                /\ last'.args[1] = i
             THEN reserveSlots'[i].rank = reserveSlots[i].rank - 1
             ELSE reserveSlots'[i].rank >= reserveSlots[i].rank

C24_RankWhileOccupied == [][C24_Step]_vars

\* a card put on an occupant has been moved out again and the slot is still occupied
C24_Witness ==
    /\ last.op = "moveFromReserveToColumn" /\ Succeeded
    /\ reserveSlots[last.args[1]].valid
    /\ Len(placed[last.args[1]]) >= 2

(* C25: an empty reserve slot (valid = false) is treated as holding no card
   by every reserve operation: moveFromReserveToColumn on an empty slot
   returns false and changes nothing, whatever the column holds, and an
   empty slot accepts only the Ace of the matching suit. *)
C25_Step ==
    /\ (last'.op = "moveFromReserveToColumn" /\ ~reserveSlots[last'.args[1]].valid)
         => (last'.ret = "false" /\ game' = game)
    /\ (last'.op = "moveFromPileToReserve" /\ last'.ret = "true"
          /\ ~reserveSlots[last'.args[1]].valid)
         => (Back(pile).rank = Ace /\ Back(pile).suit = last'.args[1])
    /\ (last'.op = "moveFromColumnToReserve" /\ last'.ret = "true"
          /\ ~reserveSlots[last'.args[2]].valid)
         => LET card == Back(columns[last'.args[1]]) IN
              card.rank = Ace /\ card.suit = last'.args[2]

C25_EmptySlotHoldsNoCard == [][C25_Step]_vars

\* the cards of the deck and of the seven columns
DeckAndColumns ==
    deck \o columns[0] \o columns[1] \o columns[2] \o columns[3]
         \o columns[4] \o columns[5] \o columns[6]

(* C26: immediately after reset() the 52 cards held by the deck and the
   seven columns together are exactly the canonical set, each (suit, rank)
   pair once, every one valid, and every card of the deck is face-down. *)
C26_ResetCanonical ==
    (last.op = "reset")
      => /\ Len(DeckAndColumns) = 52
         /\ {Pair(DeckAndColumns[k]) : k \in 1 .. Len(DeckAndColumns)} = CanonicalPairs
         /\ \A k \in 1 .. Len(DeckAndColumns) : DeckAndColumns[k].valid
         /\ \A k \in 1 .. Len(deck) : ~deck[k].facingUp

\* reset has run: the deck and the columns hold 52 cards and the reserves are empty
C26_Witness ==
    /\ last.op = "reset"
    /\ Len(DeckAndColumns) = 52
    /\ \A i \in Slots : ~reserveSlots[i].valid

(* C27: the przetasuj command reshuffles the pile into the deck only when
   the deck is empty; when the deck is non-empty the command is answered
   with a message and deck, pile, columns and reserves are unchanged, so
   Deck::reShuffle is never called with a non-empty deck. *)
C27_Step ==
    /\ (Commanded /\ ui'.command.name = "przetasuj")
         => IF deck # <<>>
            THEN /\ ui'.called = <<>>
                 /\ ui'.reply # ""
                 /\ UNCHANGED <<deck, pile, columns, reserveSlots>>
            ELSE /\ ui'.called = <<[op |-> "reShuffle", args |-> <<>>]>>
                 /\ pile' = <<>>
                 /\ BagOf([k \in 1 .. Len(deck') |-> Pair(deck'[k])])
                      = BagOf([k \in 1 .. Len(pile) |-> Pair(pile[k])])
                 /\ UNCHANGED <<columns, reserveSlots>>
    /\ Commanded
         => \A k \in 1 .. Len(ui'.called) : ui'.called[k].op = "reShuffle" => deck = <<>>

C27_Przetasuj == [][C27_Step]_vars

\* przetasuj has put the 24 cards of the pile back into the deck
C27_Witness ==
    /\ ui.reply = "Przetasowano"
    /\ pile = <<>>
    /\ Len(deck) = 24

(* C28: isGameWon is polled after each command, before the next command is
   read: the loop waits for a command only straight after a poll that found
   the game not won, so while the game is won no command is read; at a won
   game the player answers tak, after which the game is reset to a fresh
   deal that is not won and the loop draws again, or the loop ends and reads
   no command any more. *)
C28_Step ==
    \/ ui'.main = "crashed"
    \/ /\ (ui'.main = "input" /\ ui.main # "input") => (ui.main = "poll" /\ ~isGameWon)
       /\ (ui.main = "poll" /\ ui'.main # "poll")
            => (ui'.main = (IF isGameWon THEN "won" ELSE "input") /\ UNCHANGED game)
       /\ Commanded => ~isGameWon
       /\ (ui.main = "won" /\ ui'.main # "won")
            => \/ /\ last'.op = "reset"
                  /\ ~isGameWon'
                  /\ \E d \in Deck_reset :
                       <<deck', columns'>> = Deal(d, [i \in Cols |-> <<>>], 0)
                  /\ pile' = <<>>
                  /\ \A i \in Slots : ~reserveSlots'[i].valid
                  /\ ui'.main = "enter"
               \/ /\ ui'.main = "join"
                  /\ ~ui'.running
                  /\ UNCHANGED game
       /\ ui.main \in {"join", "done"} => ui'.main \in {"join", "done"}

C28_WonPolled ==
    /\ [](ui.main = "input" => ~isGameWon)
    /\ [][C28_Step]_vars

\* the player answered tak at the won game that was saved, and the loop waits
\* for a command in the fresh deal
C28_Witness ==
    /\ ui.main = "input"
    /\ last.op = "reset"
    /\ saved.state[2] = WonPosition

(* C29: on a successful moveCard(fromCol, toCol, count) with fromCol # toCol
   the last count cards of fromCol become the last count cards of toCol in
   the same order, fromCol shrinks and toCol grows by count, the cards that
   stay are unchanged except that a face-down new last card of fromCol is
   flipped, and every other column, the deck, the pile, the reserves and
   currentCard are unchanged. *)
C29_Step ==
    (last'.op = "moveCard" /\ last'.ret = "true" /\ last'.args[1] # last'.args[2])
      => LET fromCol == last'.args[1]
             toCol == last'.args[2]
             count == last'.args[3]
             from == columns[fromCol]
             to == columns[toCol]
             left == Len(from) - count
         IN /\ Len(columns'[fromCol]) = left
            /\ Len(columns'[toCol]) = Len(to) + count
            /\ \A j \in 1 .. count : columns'[toCol][Len(to) + j] = from[left + j]
            /\ \A j \in 1 .. Len(to) : columns'[toCol][j] = to[j]
            /\ \A j \in 1 .. left :
                 columns'[fromCol][j] =
                   IF j = left /\ ~from[j].facingUp THEN flip(from[j]) ELSE from[j]
            /\ \A i \in Cols \ {fromCol, toCol} : columns'[i] = columns[i]
            /\ UNCHANGED <<deck, pile, reserveSlots, currentCard>>

C29_MoveCardFrame == [][C29_Step]_vars

\* two cards have moved together from one column onto another and left
\* cards behind
C29_Witness ==
    /\ last.op = "moveCard"
    /\ last.ret = "true"
    /\ last.args[1] # last.args[2]
    /\ last.args[3] = 2
    /\ columns[last.args[1]] # <<>>

(* C30: the reserve behaves as a stack that exposes only its top: when the
   card a ...ToReserve call placed into reserves[i] is moved out by
   moveFromReserveToColumn, reserves[i] afterwards holds the occupant it
   held before the card was placed, the same suit and rank or empty. *)
C30_Step ==
    \A i \in Slots :
      (/\ last'.op = "moveFromReserveToColumn"
       /\ last'.ret = "true"
       /\ last'.args[1] = i
       /\ replaced[i] # <<>>)
        => LET before == replaced[i][1] IN
             IF before.valid
             THEN reserveSlots'[i].valid /\ Pair(reserveSlots'[i]) = Pair(before)
             ELSE ~reserveSlots'[i].valid

C30_ReserveStack == [][C30_Step]_vars

(* C31: in every state reachable from reset() through the engine's
   operations no two cards of the deck, the columns, the pile and the
   reserve occupants have the same (suit, rank), and deck, columns and pile
   together hold at most 52 cards. *)
C31_NoDuplicates ==
    /\ LET pairs == [k \in 1 .. Len(AllCards) |-> Pair(AllCards[k])]
       IN Cardinality({pairs[k] : k \in 1 .. Len(pairs)}) = Len(pairs)
    /\ Len(DeckAndColumns) + Len(pile) <= 52

(* C32: no invalid card ever appears in the deck, in a column or in the
   pile, in every state reachable from reset() through the engine's
   operations and also after a successful load of a file written by save and
   the draws and moves that follow it. *)
C32_NoInvalidCard ==
    LET cards == DeckAndColumns \o pile
    IN \A k \in 1 .. Len(cards) : cards[k].valid

(* C33: in every state reachable from reset() through the engine's
   operations, in every column no face-down card lies above a face-up card
   and the last card of every non-empty column is face-up. *)
C33_FaceDownPrefix ==
    \A i \in Cols :
      LET column == columns[i] IN
        /\ \A j \in 1 .. (Len(column) - 1) : column[j].facingUp => column[j + 1].facingUp
        /\ column # <<>> => Back(column).facingUp

\* the upper card continues a run on the lower one: one rank less, the other colour
Continues(upper, lower) == upper.rank = lower.rank - 1 /\ isRed(upper) # isRed(lower)

(* C34: in every state reachable from reset() through the engine's
   operations the face-up cards of every column form a run: each face-up
   card lying directly on a face-up card has one rank less and the other
   colour; so the cards a successful moveCard moves are a descending run of
   alternating colour, although moveCard tests only the first of them. *)
C34_Runs ==
    \A i \in Cols :
      \A j \in 1 .. (Len(columns[i]) - 1) :
        (columns[i][j].facingUp /\ columns[i][j + 1].facingUp)
          => Continues(columns[i][j + 1], columns[i][j])

C34_Step ==
    (last'.op = "moveCard" /\ last'.ret = "true")
      => LET from == columns[last'.args[1]]
             count == last'.args[3]
         IN \A j \in (Len(from) - count + 1) .. (Len(from) - 1) :
              Continues(from[j + 1], from[j])

C34_ValidRuns == []C34_Runs /\ [][C34_Step]_vars

\* two cards were moved together onto a face-up card and a run of three lies there
C34_Witness ==
    /\ last.op = "moveCard"
    /\ last.ret = "true"
    /\ last.args[3] = 2
    /\ LET to == columns[last.args[2]] IN
         /\ Len(to) >= 3
         /\ to[Len(to) - 2].facingUp

(* C35: the Tableau is never read by one thread while the other changes it:
   no call of the main thread that changes the deck, the columns, the pile,
   the reserves or currentCard is made while the watcher thread is inside
   its draw(). *)
C35_Step == (game' # game) => ui.watcher # "render"

C35_NoConcurrentAccess == [][C35_Step]_vars

(* C36: whenever isGameWon() is true in a state reachable from reset()
   through the engine's operations, every card is in the columns: the deck
   is empty, the pile is empty and all four reserves are empty. *)
C36_WonHoldsAllCards ==
    isGameWon => /\ deck = <<>>
                 /\ pile = <<>>
                 /\ \A i \in Slots : ~reserveSlots[i].valid

(* C37: the game can be won: there is a deal that reset() can produce and a
   finite sequence of engine operations from it that reaches a state in
   which isGameWon() is true.  On the deal SolutionDeal every call of
   SolutionCalls is accepted, and after the last of them isGameWon() is
   true. *)
C37_CanBeWon ==
    /\ last.ret # "false"
    /\ (Played = Len(SolutionCalls)) => isGameWon

\* the last call of the game played has put the last card of the pile on its run
C37_Witness ==
    /\ isGameWon
    /\ Played = Len(SolutionCalls)
    /\ last.op = "moveFromPileToColumn"
    /\ last.ret = "true"
    /\ deck = <<>>
    /\ pile = <<>>

(* C38: in every state reachable from reset() through the engine's
   operations every card of the pile is face-up and every card of the deck
   is face-down, also after the pile has been reshuffled into the deck. *)
C38_PileUpDeckDown ==
    /\ \A k \in 1 .. Len(pile) : pile[k].facingUp
    /\ \A k \in 1 .. Len(deck) : ~deck[k].facingUp

\* after a reshuffle cards have been drawn again from the deck
C38_Witness ==
    /\ used.reshuffles > 0
    /\ last.op = "drawCard"
    /\ last.ret = "true"
    /\ pile # <<>>
    /\ deck # <<>>

(* C39: moveCard(c, c, count), with the same column as source and
   destination, returns false and leaves the column unchanged, for every
   column c and every count, in every state reachable from reset() through
   the engine's operations. *)
C39_Step ==
    (last'.op = "moveCard" /\ last'.args[1] = last'.args[2])
      => /\ last'.ret = "false"
         /\ UNCHANGED game

C39_SameColumnRejected == [][C39_Step]_vars

\* moveCard was called on one column with count 2 where the two last cards
\* of the column are face-up, so that the landing test decided
C39_Witness ==
    /\ last.op = "moveCard"
    /\ last.args[1] = last.args[2]
    /\ last.args[3] = 2
    /\ LET column == columns[last.args[1]] IN
         /\ Len(column) >= 2
         /\ column[Len(column) - 1].facingUp

=============================================================================
